---- MODULE Spec2Model ----
(***************************************************************************)
(* Model of the SVMC volume preprocessing of MCX (mcx_svmc.cu, stored in   *)
(* src/src/mcx_vector_math.cu): replicate padding, Gaussian kernel,        *)
(* per-label mask and blur, marching-cubes voxel splitting and the host    *)
(* orchestrator mcx_svmc_preprocess.                                       *)
(*                                                                         *)
(* Numbers.  `float' values are rendered in binary fixed point:            *)
(*   - scalar values (kernel weights, masks, smoothed fields, normal       *)
(*     components) carry 24 fractional bits (ONE is 1.0f);                 *)
(*   - positions inside a cube carry 12 fractional bits (GONE is 1.0f), so *)
(*     that a cross product of two position differences is exact with 24   *)
(*     fractional bits;                                                    *)
(*   - areas carry 25 fractional bits, so that 0.5f * length(...) is exact *)
(*     as it is in binary floating point.                                  *)
(* A NaN is the value NaN, an integer no computation produces.  A value     *)
(* below 2^-25 rounds to 0; the only such values that matter are those of  *)
(* expf in gaussian_filter, and the standard deviations are chosen so that *)
(* a weight that rounds to 0 here underflows to 0 in binary floating point *)
(* as well.                                                                *)
(* `unsigned int' cells are 4-tuples of bytes,                             *)
(* least significant first; `unsigned char' buffers are functions from a   *)
(* byte offset to 0..255.                                                  *)
(***************************************************************************)
EXTENDS Integers, Sequences, FiniteSets, TLC

(***************************************************************************)
(* Fixed-point arithmetic                                                  *)
(***************************************************************************)
ONE == 2^24

GONE == 2^12

NaN == -(2^30)

Abs(x) == IF x < 0 THEN -x ELSE x

Sgn(x) == IF x < 0 THEN -1 ELSE 1

\* floor(a * b / 2^24) for 0 <= a, b < 2^27, without leaving 32 bits
MulMag(a, b) ==
    LET ah == a \div 4096
        al == a % 4096
        bh == b \div 4096
        bl == b % 4096
    IN  ah * bh + ((ah * bl + al * bh) + ((al * bl) \div 4096)) \div 4096

\* a * b of two floats with 24 fractional bits (rounded toward zero)
FMul(a, b) == Sgn(a) * Sgn(b) * MulMag(Abs(a), Abs(b))

RECURSIVE DivBits(_, _, _, _)
\* n more quotient bits of r / d by long division, r < d < 2^30
DivBits(r, d, n, q) ==
    IF n = 0 THEN q
    ELSE IF 2 * r >= d THEN DivBits(2 * r - d, d, n - 1, 2 * q + 1)
         ELSE DivBits(2 * r, d, n - 1, 2 * q)

\* a / b with `bits' fractional bits in the quotient (rounded toward zero), b # 0
FDivBits(a, b, bits) ==
    Sgn(a) * Sgn(b) *
        ((Abs(a) \div Abs(b)) * (2^bits) + DivBits(Abs(a) % Abs(b), Abs(b), bits, 0))

\* a / b of two floats of one scale, the quotient with 24 fractional bits
FDiv(a, b) == FDivBits(a, b, 24)

(***************************************************************************)
(* Exact integer square root of hi * 2^26 + lo (lo < 2^26), digit by digit *)
(***************************************************************************)
RECURSIVE SqrtDigits(_, _, _, _)
\* consumes the k low base-4 digits of v, most significant first
SqrtDigits(v, k, p, rem) ==
    IF k = 0 THEN <<p, rem>>
    ELSE LET d == (v \div (4^(k - 1))) % 4
             r == 4 * rem + d
             t == 4 * p + 1
         IN  IF r >= t THEN SqrtDigits(v, k - 1, 2 * p + 1, r - t)
             ELSE SqrtDigits(v, k - 1, 2 * p, r)

ISqrt2(hi, lo) ==
    LET top == SqrtDigits(hi, 15, 0, 0)
    IN  SqrtDigits(lo, 13, top[1], top[2])[1]

\* c * c as <<hi, lo>> with c * c = hi * 2^26 + lo, for 0 <= c < 2^27
Sq2(c) ==
    LET ch == c \div 8192
        cl == c % 8192
        m  == 2 * ch * cl
        l  == (m % 8192) * 8192 + cl * cl
    IN  <<ch * ch + m \div 8192 + l \div (2^26), l % (2^26)>>

(***************************************************************************)
(* mcx_vector_math.cu: float3 helpers.  A float3 is a triple.              *)
(***************************************************************************)
VAdd(a, b) == <<a[1] + b[1], a[2] + b[2], a[3] + b[3]>>

VSub(a, b) == <<a[1] - b[1], a[2] - b[2], a[3] - b[3]>>

\* cross(a, b) of two position differences (12 fractional bits): exact, 24 bits
cross(a, b) ==
    <<a[2] * b[3] - a[3] * b[2], a[3] * b[1] - a[1] * b[3], a[1] * b[2] - a[2] * b[1]>>

\* length(v) = sqrtf(dot(v, v)) of a cross product, same scale as v
length(v) ==
    LET sx == Sq2(Abs(v[1]))
        sy == Sq2(Abs(v[2]))
        sz == Sq2(Abs(v[3]))
        lo == sx[2] + sy[2] + sz[2]
    IN  ISqrt2(sx[1] + sy[1] + sz[1] + lo \div (2^26), lo % (2^26))

\* flatten_3d_to_1d(idx3d, dim)
flatten_3d_to_1d(idx3d, dim) == idx3d[1] + idx3d[2] * dim[1] + idx3d[3] * dim[1] * dim[2]

\* the 3-D index of a 1-D index (the inverse, used to enumerate a launch grid)
Unflatten(i, dim) == <<i % dim[1], (i \div dim[1]) % dim[2], i \div (dim[1] * dim[2])>>

(***************************************************************************)
(* Bounds of the model                                                     *)
(***************************************************************************)
\* largest extent per axis of a volume handed to pad_replicate_volume alone
MaxPadDim == 2

\* largest pad width handed to pad_replicate_volume alone
MaxPad == 2

\* largest kernel extent per axis handed to gaussian_filter alone
MaxKSize == 3

\* standard deviations handed to gaussian_filter alone, in units of 1/32:
\* 1/32, 1/2, 1 and 2
StdSet == {1, 16, 32, 64}

(***************************************************************************)
(* unsigned int cells                                                      *)
(***************************************************************************)
ZeroWord == <<0, 0, 0, 0>>

\* the cell holding the value n < 2^8
Word(n) == <<n, 0, 0, 0>>

(***************************************************************************)
(* pad_replicate_volume                                                    *)
(***************************************************************************)
PaddedDim(dim, pad_size) ==
    <<dim[1] + pad_size * 2, dim[2] + pad_size * 2, dim[3] + pad_size * 2>>

VolLength(dim) == dim[1] * dim[2] * dim[3]

\* calloc, then "copy vol values"
PadCopyIn(vol, pad_size, dim) ==
    LET nd == PaddedDim(dim, pad_size)
    IN  [n \in 0..(VolLength(nd) - 1) |->
            LET c == Unflatten(n, nd)
            IN  IF /\ c[1] >= pad_size /\ c[1] < pad_size + dim[1]
                   /\ c[2] >= pad_size /\ c[2] < pad_size + dim[2]
                   /\ c[3] >= pad_size /\ c[3] < pad_size + dim[3]
                THEN vol[flatten_3d_to_1d(<<c[1] - pad_size, c[2] - pad_size, c[3] - pad_size>>, dim)]
                ELSE ZeroWord]

\* one slice of a pass: every cell whose coordinate `axis' is `at' takes the value
\* of its neighbour `step' further along that axis
PadSlice(v, nd, axis, at, step) ==
    [n \in DOMAIN v |->
        LET c == Unflatten(n, nd)
        IN  IF c[axis] = at
            THEN v[flatten_3d_to_1d([c EXCEPT ![axis] = at + step], nd)]
            ELSE v[n]]

\* a variant of PadDown that fills the slice next to the data and stops there
PadDown_OneSlice(v, nd, axis, at) ==
    IF at < 0 THEN v ELSE PadSlice(v, nd, axis, at, 1)

RECURSIVE PadDown(_, _, _, _)
\* "pad along -axis": for (i = at; i >= 0; --i) new[i] = new[i + 1]
PadDown(v, nd, axis, at) ==
    IF at < 0 THEN v ELSE PadDown(PadSlice(v, nd, axis, at, 1), nd, axis, at - 1)

RECURSIVE PadUp(_, _, _, _)
\* "pad along +axis": for (i = at; i < new_dim; ++i) new[i] = new[i - 1]
PadUp(v, nd, axis, at) ==
    IF at >= nd[axis] THEN v ELSE PadUp(PadSlice(v, nd, axis, at, -1), nd, axis, at + 1)

\* the pass named by a program location of pad_replicate_volume
PadPass(v, nd, pad_size, pass) ==
    CASE pass = "minus_x" -> PadDown(v, nd, 1, pad_size - 1)
      [] pass = "plus_x"  -> PadUp(v, nd, 1, nd[1] - pad_size)
      [] pass = "minus_y" -> PadDown(v, nd, 2, pad_size - 1)
      [] pass = "plus_y"  -> PadUp(v, nd, 2, nd[2] - pad_size)
      [] pass = "minus_z" -> PadDown(v, nd, 3, pad_size - 1)
      [] pass = "plus_z"  -> PadUp(v, nd, 3, nd[3] - pad_size)

PadPasses == <<"minus_x", "plus_x", "minus_y", "plus_y", "minus_z", "plus_z">>

RECURSIVE PadFrom(_, _, _, _)
PadFrom(v, nd, pad_size, k) ==
    IF k > Len(PadPasses) THEN v
    ELSE PadFrom(PadPass(v, nd, pad_size, PadPasses[k]), nd, pad_size, k + 1)

pad_replicate_volume(vol, pad_size, dim) ==
    PadFrom(PadCopyIn(vol, pad_size, dim), PaddedDim(dim, pad_size), pad_size, 1)

(***************************************************************************)
(* gaussian_filter                                                         *)
(***************************************************************************)
\* expf(-1/32) with 24 fractional bits
E32 == 16261035

RECURSIVE ExpNeg32(_)
\* expf(-q/32), by squaring
ExpNeg32(q) ==
    IF q = 0 THEN ONE
    ELSE IF q % 2 = 0 THEN LET h == ExpNeg32(q \div 2) IN FMul(h, h)
         ELSE FMul(E32, ExpNeg32(q - 1))

RECURSIVE SumTo(_, _)
\* f[0] + ... + f[n - 1]
SumTo(f, n) == IF n = 0 THEN 0 ELSE SumTo(f, n - 1) + f[n - 1]

\* the weights before normalization; std is in units of 1/32, and the offsets
\* x, y, z from the kernel centre are kept doubled (x2 = 2 * x), so that
\* (x * x + y * y + z * z) / (2.0f * std * std) is q / 32 for the integer q below
GaussianRaw(size, std) ==
    [n \in 0..(VolLength(size) - 1) |->
        LET c  == Unflatten(n, size)
            x2 == 2 * c[1] - (size[1] - 1)
            y2 == 2 * c[2] - (size[2] - 1)
            z2 == 2 * c[3] - (size[3] - 1)
        IN  ExpNeg32((4096 * (x2 * x2 + y2 * y2 + z2 * z2)) \div (std * std))]

\* a variant of GaussianNormalize that divides by the number of weights
GaussianNormalize_ByCount(raw, n) ==
    [i \in DOMAIN raw |-> FMul(raw[i], FDiv(ONE, n * ONE))]

\* "normalization": factor = 1.0f / sum; every weight *= factor
GaussianNormalize(raw, n) ==
    LET sum == SumTo(raw, n)
    IN  IF sum = 0 THEN [i \in DOMAIN raw |-> NaN]
        ELSE LET factor == FDiv(ONE, sum)
             IN  [i \in DOMAIN raw |-> FMul(raw[i], factor)]

gaussian_filter(size, std) == GaussianNormalize(GaussianRaw(size, std), VolLength(size))

(***************************************************************************)
(* Device constants                                                        *)
(***************************************************************************)
MCX_SVMC_GKERNEL_SIZE == 3

\* MCX_SVMC_GKERNEL_STD 1.0f, in units of 1/32
MCX_SVMC_GKERNEL_STD == 32

\* MCX_SVMC_ISOVALUE 0.5f
MCX_SVMC_ISOVALUE == ONE \div 2

\* mcx_const.h: the low 16 bits of a cell are the medium index
MED_MASK == <<255, 255, 0, 0>>

\* mcx_utils.h: the mediabyte of the sub-voxel dual-label format
MEDIA_2LABEL_SPLIT == 97

\* cube_vertices_local[i], at position i + 1
cube_vertices_local ==
    << <<0, 0, 0>>, <<1, 0, 0>>, <<1, 0, 1>>, <<0, 0, 1>>,
       <<0, 1, 0>>, <<1, 1, 0>>, <<1, 1, 1>>, <<0, 1, 1>> >>

\* a variant of edge_vertices in which edge 8 joins the corners 0 and 5
edge_vertices_Edge8 ==
    << <<0, 1>>, <<1, 2>>, <<2, 3>>, <<0, 3>>, <<4, 5>>, <<5, 6>>,
       <<6, 7>>, <<4, 7>>, <<0, 5>>, <<1, 5>>, <<2, 6>>, <<3, 7>> >>

\* edge_vertices[i], at position i + 1
edge_vertices ==
    << <<0, 1>>, <<1, 2>>, <<2, 3>>, <<0, 3>>, <<4, 5>>, <<5, 6>>,
       <<6, 7>>, <<4, 7>>, <<0, 4>>, <<1, 5>>, <<2, 6>>, <<3, 7>> >>

\* edge_intersections[c], at position c + 1
edge_intersections ==
    <<
       0, 265, 515, 778, 1030, 1295, 1541, 1804,
       2060, 2309, 2575, 2822, 3082, 3331, 3593, 3840,
       400, 153, 915, 666, 1430, 1183, 1941, 1692,
       2460, 2197, 2975, 2710, 3482, 3219, 3993, 3728,
       560, 825, 51, 314, 1590, 1855, 1077, 1340,
       2620, 2869, 2111, 2358, 3642, 3891, 3129, 3376,
       928, 681, 419, 170, 1958, 1711, 1445, 1196,
       2988, 2725, 2479, 2214, 4010, 3747, 3497, 3232,
       1120, 1385, 1635, 1898, 102, 367, 613, 876,
       3180, 3429, 3695, 3942, 2154, 2403, 2665, 2912,
       1520, 1273, 2035, 1786, 502, 255, 1013, 764,
       3580, 3317, 4095, 3830, 2554, 2291, 3065, 2800,
       1616, 1881, 1107, 1370, 598, 863, 85, 348,
       3676, 3925, 3167, 3414, 2650, 2899, 2137, 2384,
       1984, 1737, 1475, 1226, 966, 719, 453, 204,
       4044, 3781, 3535, 3270, 3018, 2755, 2505, 2240,
       2240, 2505, 2755, 3018, 3270, 3535, 3781, 4044,
       204, 453, 719, 966, 1226, 1475, 1737, 1984,
       2384, 2137, 2899, 2650, 3414, 3167, 3925, 3676,
       348, 85, 863, 598, 1370, 1107, 1881, 1616,
       2800, 3065, 2291, 2554, 3830, 4095, 3317, 3580,
       764, 1013, 255, 502, 1786, 2035, 1273, 1520,
       2912, 2665, 2403, 2154, 3942, 3695, 3429, 3180,
       876, 613, 367, 102, 1898, 1635, 1385, 1120,
       3232, 3497, 3747, 4010, 2214, 2479, 2725, 2988,
       1196, 1445, 1711, 1958, 170, 419, 681, 928,
       3376, 3129, 3891, 3642, 2358, 2111, 2869, 2620,
       1340, 1077, 1855, 1590, 314, 51, 825, 560,
       3728, 3993, 3219, 3482, 2710, 2975, 2197, 2460,
       1692, 1941, 1183, 1430, 666, 915, 153, 400,
       3840, 3593, 3331, 3082, 2822, 2575, 2309, 2060,
       1804, 1541, 1295, 1030, 778, 515, 265, 0
    >>

triangle_vertices ==
    <<
       <<-1,-1,-1,-1,-1,-1,-1,-1,-1,-1,-1,-1,-1,-1,-1,-1>>, <<0,8,3,-1,-1,-1,-1,-1,-1,-1,-1,-1,-1,-1,-1,-1>>,
       <<0,1,9,-1,-1,-1,-1,-1,-1,-1,-1,-1,-1,-1,-1,-1>>, <<1,8,3,9,8,1,-1,-1,-1,-1,-1,-1,-1,-1,-1,-1>>,
       <<1,2,10,-1,-1,-1,-1,-1,-1,-1,-1,-1,-1,-1,-1,-1>>, <<0,8,3,1,2,10,-1,-1,-1,-1,-1,-1,-1,-1,-1,-1>>,
       <<9,2,10,0,2,9,-1,-1,-1,-1,-1,-1,-1,-1,-1,-1>>, <<2,8,3,2,10,8,10,9,8,-1,-1,-1,-1,-1,-1,-1>>,
       <<3,11,2,-1,-1,-1,-1,-1,-1,-1,-1,-1,-1,-1,-1,-1>>, <<0,11,2,8,11,0,-1,-1,-1,-1,-1,-1,-1,-1,-1,-1>>,
       <<1,9,0,2,3,11,-1,-1,-1,-1,-1,-1,-1,-1,-1,-1>>, <<1,11,2,1,9,11,9,8,11,-1,-1,-1,-1,-1,-1,-1>>,
       <<3,10,1,11,10,3,-1,-1,-1,-1,-1,-1,-1,-1,-1,-1>>, <<0,10,1,0,8,10,8,11,10,-1,-1,-1,-1,-1,-1,-1>>,
       <<3,9,0,3,11,9,11,10,9,-1,-1,-1,-1,-1,-1,-1>>, <<9,8,10,10,8,11,-1,-1,-1,-1,-1,-1,-1,-1,-1,-1>>,
       <<4,7,8,-1,-1,-1,-1,-1,-1,-1,-1,-1,-1,-1,-1,-1>>, <<4,3,0,7,3,4,-1,-1,-1,-1,-1,-1,-1,-1,-1,-1>>,
       <<0,1,9,8,4,7,-1,-1,-1,-1,-1,-1,-1,-1,-1,-1>>, <<4,1,9,4,7,1,7,3,1,-1,-1,-1,-1,-1,-1,-1>>,
       <<1,2,10,8,4,7,-1,-1,-1,-1,-1,-1,-1,-1,-1,-1>>, <<3,4,7,3,0,4,1,2,10,-1,-1,-1,-1,-1,-1,-1>>,
       <<9,2,10,9,0,2,8,4,7,-1,-1,-1,-1,-1,-1,-1>>, <<2,10,9,2,9,7,2,7,3,7,9,4,-1,-1,-1,-1>>,
       <<8,4,7,3,11,2,-1,-1,-1,-1,-1,-1,-1,-1,-1,-1>>, <<11,4,7,11,2,4,2,0,4,-1,-1,-1,-1,-1,-1,-1>>,
       <<9,0,1,8,4,7,2,3,11,-1,-1,-1,-1,-1,-1,-1>>, <<4,7,11,9,4,11,9,11,2,9,2,1,-1,-1,-1,-1>>,
       <<3,10,1,3,11,10,7,8,4,-1,-1,-1,-1,-1,-1,-1>>, <<1,11,10,1,4,11,1,0,4,7,11,4,-1,-1,-1,-1>>,
       <<4,7,8,9,0,11,9,11,10,11,0,3,-1,-1,-1,-1>>, <<4,7,11,4,11,9,9,11,10,-1,-1,-1,-1,-1,-1,-1>>,
       <<9,5,4,-1,-1,-1,-1,-1,-1,-1,-1,-1,-1,-1,-1,-1>>, <<9,5,4,0,8,3,-1,-1,-1,-1,-1,-1,-1,-1,-1,-1>>,
       <<0,5,4,1,5,0,-1,-1,-1,-1,-1,-1,-1,-1,-1,-1>>, <<8,5,4,8,3,5,3,1,5,-1,-1,-1,-1,-1,-1,-1>>,
       <<1,2,10,9,5,4,-1,-1,-1,-1,-1,-1,-1,-1,-1,-1>>, <<3,0,8,1,2,10,4,9,5,-1,-1,-1,-1,-1,-1,-1>>,
       <<5,2,10,5,4,2,4,0,2,-1,-1,-1,-1,-1,-1,-1>>, <<2,10,5,3,2,5,3,5,4,3,4,8,-1,-1,-1,-1>>,
       <<9,5,4,2,3,11,-1,-1,-1,-1,-1,-1,-1,-1,-1,-1>>, <<0,11,2,0,8,11,4,9,5,-1,-1,-1,-1,-1,-1,-1>>,
       <<0,5,4,0,1,5,2,3,11,-1,-1,-1,-1,-1,-1,-1>>, <<2,1,5,2,5,8,2,8,11,4,8,5,-1,-1,-1,-1>>,
       <<10,3,11,10,1,3,9,5,4,-1,-1,-1,-1,-1,-1,-1>>, <<4,9,5,0,8,1,8,10,1,8,11,10,-1,-1,-1,-1>>,
       <<5,4,0,5,0,11,5,11,10,11,0,3,-1,-1,-1,-1>>, <<5,4,8,5,8,10,10,8,11,-1,-1,-1,-1,-1,-1,-1>>,
       <<9,7,8,5,7,9,-1,-1,-1,-1,-1,-1,-1,-1,-1,-1>>, <<9,3,0,9,5,3,5,7,3,-1,-1,-1,-1,-1,-1,-1>>,
       <<0,7,8,0,1,7,1,5,7,-1,-1,-1,-1,-1,-1,-1>>, <<1,5,3,3,5,7,-1,-1,-1,-1,-1,-1,-1,-1,-1,-1>>,
       <<9,7,8,9,5,7,10,1,2,-1,-1,-1,-1,-1,-1,-1>>, <<10,1,2,9,5,0,5,3,0,5,7,3,-1,-1,-1,-1>>,
       <<8,0,2,8,2,5,8,5,7,10,5,2,-1,-1,-1,-1>>, <<2,10,5,2,5,3,3,5,7,-1,-1,-1,-1,-1,-1,-1>>,
       <<7,9,5,7,8,9,3,11,2,-1,-1,-1,-1,-1,-1,-1>>, <<9,5,7,9,7,2,9,2,0,2,7,11,-1,-1,-1,-1>>,
       <<2,3,11,0,1,8,1,7,8,1,5,7,-1,-1,-1,-1>>, <<11,2,1,11,1,7,7,1,5,-1,-1,-1,-1,-1,-1,-1>>,
       <<9,5,8,8,5,7,10,1,3,10,3,11,-1,-1,-1,-1>>, <<5,7,0,5,0,9,7,11,0,1,0,10,11,10,0,-1>>,
       <<11,10,0,11,0,3,10,5,0,8,0,7,5,7,0,-1>>, <<11,10,5,7,11,5,-1,-1,-1,-1,-1,-1,-1,-1,-1,-1>>,
       <<10,6,5,-1,-1,-1,-1,-1,-1,-1,-1,-1,-1,-1,-1,-1>>, <<0,8,3,5,10,6,-1,-1,-1,-1,-1,-1,-1,-1,-1,-1>>,
       <<9,0,1,5,10,6,-1,-1,-1,-1,-1,-1,-1,-1,-1,-1>>, <<1,8,3,1,9,8,5,10,6,-1,-1,-1,-1,-1,-1,-1>>,
       <<1,6,5,2,6,1,-1,-1,-1,-1,-1,-1,-1,-1,-1,-1>>, <<1,6,5,1,2,6,3,0,8,-1,-1,-1,-1,-1,-1,-1>>,
       <<9,6,5,9,0,6,0,2,6,-1,-1,-1,-1,-1,-1,-1>>, <<5,9,8,5,8,2,5,2,6,3,2,8,-1,-1,-1,-1>>,
       <<2,3,11,10,6,5,-1,-1,-1,-1,-1,-1,-1,-1,-1,-1>>, <<11,0,8,11,2,0,10,6,5,-1,-1,-1,-1,-1,-1,-1>>,
       <<0,1,9,2,3,11,5,10,6,-1,-1,-1,-1,-1,-1,-1>>, <<5,10,6,1,9,2,9,11,2,9,8,11,-1,-1,-1,-1>>,
       <<6,3,11,6,5,3,5,1,3,-1,-1,-1,-1,-1,-1,-1>>, <<0,8,11,0,11,5,0,5,1,5,11,6,-1,-1,-1,-1>>,
       <<3,11,6,0,3,6,0,6,5,0,5,9,-1,-1,-1,-1>>, <<6,5,9,6,9,11,11,9,8,-1,-1,-1,-1,-1,-1,-1>>,
       <<5,10,6,4,7,8,-1,-1,-1,-1,-1,-1,-1,-1,-1,-1>>, <<4,3,0,4,7,3,6,5,10,-1,-1,-1,-1,-1,-1,-1>>,
       <<1,9,0,5,10,6,8,4,7,-1,-1,-1,-1,-1,-1,-1>>, <<10,6,5,1,9,7,1,7,3,7,9,4,-1,-1,-1,-1>>,
       <<6,1,2,6,5,1,4,7,8,-1,-1,-1,-1,-1,-1,-1>>, <<1,2,5,5,2,6,3,0,4,3,4,7,-1,-1,-1,-1>>,
       <<8,4,7,9,0,5,0,6,5,0,2,6,-1,-1,-1,-1>>, <<7,3,9,7,9,4,3,2,9,5,9,6,2,6,9,-1>>,
       <<3,11,2,7,8,4,10,6,5,-1,-1,-1,-1,-1,-1,-1>>, <<5,10,6,4,7,2,4,2,0,2,7,11,-1,-1,-1,-1>>,
       <<0,1,9,4,7,8,2,3,11,5,10,6,-1,-1,-1,-1>>, <<9,2,1,9,11,2,9,4,11,7,11,4,5,10,6,-1>>,
       <<8,4,7,3,11,5,3,5,1,5,11,6,-1,-1,-1,-1>>, <<5,1,11,5,11,6,1,0,11,7,11,4,0,4,11,-1>>,
       <<0,5,9,0,6,5,0,3,6,11,6,3,8,4,7,-1>>, <<6,5,9,6,9,11,4,7,9,7,11,9,-1,-1,-1,-1>>,
       <<10,4,9,6,4,10,-1,-1,-1,-1,-1,-1,-1,-1,-1,-1>>, <<4,10,6,4,9,10,0,8,3,-1,-1,-1,-1,-1,-1,-1>>,
       <<10,0,1,10,6,0,6,4,0,-1,-1,-1,-1,-1,-1,-1>>, <<8,3,1,8,1,6,8,6,4,6,1,10,-1,-1,-1,-1>>,
       <<1,4,9,1,2,4,2,6,4,-1,-1,-1,-1,-1,-1,-1>>, <<3,0,8,1,2,9,2,4,9,2,6,4,-1,-1,-1,-1>>,
       <<0,2,4,4,2,6,-1,-1,-1,-1,-1,-1,-1,-1,-1,-1>>, <<8,3,2,8,2,4,4,2,6,-1,-1,-1,-1,-1,-1,-1>>,
       <<10,4,9,10,6,4,11,2,3,-1,-1,-1,-1,-1,-1,-1>>, <<0,8,2,2,8,11,4,9,10,4,10,6,-1,-1,-1,-1>>,
       <<3,11,2,0,1,6,0,6,4,6,1,10,-1,-1,-1,-1>>, <<6,4,1,6,1,10,4,8,1,2,1,11,8,11,1,-1>>,
       <<9,6,4,9,3,6,9,1,3,11,6,3,-1,-1,-1,-1>>, <<8,11,1,8,1,0,11,6,1,9,1,4,6,4,1,-1>>,
       <<3,11,6,3,6,0,0,6,4,-1,-1,-1,-1,-1,-1,-1>>, <<6,4,8,11,6,8,-1,-1,-1,-1,-1,-1,-1,-1,-1,-1>>,
       <<7,10,6,7,8,10,8,9,10,-1,-1,-1,-1,-1,-1,-1>>, <<0,7,3,0,10,7,0,9,10,6,7,10,-1,-1,-1,-1>>,
       <<10,6,7,1,10,7,1,7,8,1,8,0,-1,-1,-1,-1>>, <<10,6,7,10,7,1,1,7,3,-1,-1,-1,-1,-1,-1,-1>>,
       <<1,2,6,1,6,8,1,8,9,8,6,7,-1,-1,-1,-1>>, <<2,6,9,2,9,1,6,7,9,0,9,3,7,3,9,-1>>,
       <<7,8,0,7,0,6,6,0,2,-1,-1,-1,-1,-1,-1,-1>>, <<7,3,2,6,7,2,-1,-1,-1,-1,-1,-1,-1,-1,-1,-1>>,
       <<2,3,11,10,6,8,10,8,9,8,6,7,-1,-1,-1,-1>>, <<2,0,7,2,7,11,0,9,7,6,7,10,9,10,7,-1>>,
       <<1,8,0,1,7,8,1,10,7,6,7,10,2,3,11,-1>>, <<11,2,1,11,1,7,10,6,1,6,7,1,-1,-1,-1,-1>>,
       <<8,9,6,8,6,7,9,1,6,11,6,3,1,3,6,-1>>, <<0,9,1,11,6,7,-1,-1,-1,-1,-1,-1,-1,-1,-1,-1>>,
       <<7,8,0,7,0,6,3,11,0,11,6,0,-1,-1,-1,-1>>, <<7,11,6,-1,-1,-1,-1,-1,-1,-1,-1,-1,-1,-1,-1,-1>>,
       <<7,6,11,-1,-1,-1,-1,-1,-1,-1,-1,-1,-1,-1,-1,-1>>, <<3,0,8,11,7,6,-1,-1,-1,-1,-1,-1,-1,-1,-1,-1>>,
       <<0,1,9,11,7,6,-1,-1,-1,-1,-1,-1,-1,-1,-1,-1>>, <<8,1,9,8,3,1,11,7,6,-1,-1,-1,-1,-1,-1,-1>>,
       <<10,1,2,6,11,7,-1,-1,-1,-1,-1,-1,-1,-1,-1,-1>>, <<1,2,10,3,0,8,6,11,7,-1,-1,-1,-1,-1,-1,-1>>,
       <<2,9,0,2,10,9,6,11,7,-1,-1,-1,-1,-1,-1,-1>>, <<6,11,7,2,10,3,10,8,3,10,9,8,-1,-1,-1,-1>>,
       <<7,2,3,6,2,7,-1,-1,-1,-1,-1,-1,-1,-1,-1,-1>>, <<7,0,8,7,6,0,6,2,0,-1,-1,-1,-1,-1,-1,-1>>,
       <<2,7,6,2,3,7,0,1,9,-1,-1,-1,-1,-1,-1,-1>>, <<1,6,2,1,8,6,1,9,8,8,7,6,-1,-1,-1,-1>>,
       <<10,7,6,10,1,7,1,3,7,-1,-1,-1,-1,-1,-1,-1>>, <<10,7,6,1,7,10,1,8,7,1,0,8,-1,-1,-1,-1>>,
       <<0,3,7,0,7,10,0,10,9,6,10,7,-1,-1,-1,-1>>, <<7,6,10,7,10,8,8,10,9,-1,-1,-1,-1,-1,-1,-1>>,
       <<6,8,4,11,8,6,-1,-1,-1,-1,-1,-1,-1,-1,-1,-1>>, <<3,6,11,3,0,6,0,4,6,-1,-1,-1,-1,-1,-1,-1>>,
       <<8,6,11,8,4,6,9,0,1,-1,-1,-1,-1,-1,-1,-1>>, <<9,4,6,9,6,3,9,3,1,11,3,6,-1,-1,-1,-1>>,
       <<6,8,4,6,11,8,2,10,1,-1,-1,-1,-1,-1,-1,-1>>, <<1,2,10,3,0,11,0,6,11,0,4,6,-1,-1,-1,-1>>,
       <<4,11,8,4,6,11,0,2,9,2,10,9,-1,-1,-1,-1>>, <<10,9,3,10,3,2,9,4,3,11,3,6,4,6,3,-1>>,
       <<8,2,3,8,4,2,4,6,2,-1,-1,-1,-1,-1,-1,-1>>, <<0,4,2,4,6,2,-1,-1,-1,-1,-1,-1,-1,-1,-1,-1>>,
       <<1,9,0,2,3,4,2,4,6,4,3,8,-1,-1,-1,-1>>, <<1,9,4,1,4,2,2,4,6,-1,-1,-1,-1,-1,-1,-1>>,
       <<8,1,3,8,6,1,8,4,6,6,10,1,-1,-1,-1,-1>>, <<10,1,0,10,0,6,6,0,4,-1,-1,-1,-1,-1,-1,-1>>,
       <<4,6,3,4,3,8,6,10,3,0,3,9,10,9,3,-1>>, <<10,9,4,6,10,4,-1,-1,-1,-1,-1,-1,-1,-1,-1,-1>>,
       <<4,9,5,7,6,11,-1,-1,-1,-1,-1,-1,-1,-1,-1,-1>>, <<0,8,3,4,9,5,11,7,6,-1,-1,-1,-1,-1,-1,-1>>,
       <<5,0,1,5,4,0,7,6,11,-1,-1,-1,-1,-1,-1,-1>>, <<11,7,6,8,3,4,3,5,4,3,1,5,-1,-1,-1,-1>>,
       <<9,5,4,10,1,2,7,6,11,-1,-1,-1,-1,-1,-1,-1>>, <<6,11,7,1,2,10,0,8,3,4,9,5,-1,-1,-1,-1>>,
       <<7,6,11,5,4,10,4,2,10,4,0,2,-1,-1,-1,-1>>, <<3,4,8,3,5,4,3,2,5,10,5,2,11,7,6,-1>>,
       <<7,2,3,7,6,2,5,4,9,-1,-1,-1,-1,-1,-1,-1>>, <<9,5,4,0,8,6,0,6,2,6,8,7,-1,-1,-1,-1>>,
       <<3,6,2,3,7,6,1,5,0,5,4,0,-1,-1,-1,-1>>, <<6,2,8,6,8,7,2,1,8,4,8,5,1,5,8,-1>>,
       <<9,5,4,10,1,6,1,7,6,1,3,7,-1,-1,-1,-1>>, <<1,6,10,1,7,6,1,0,7,8,7,0,9,5,4,-1>>,
       <<4,0,10,4,10,5,0,3,10,6,10,7,3,7,10,-1>>, <<7,6,10,7,10,8,5,4,10,4,8,10,-1,-1,-1,-1>>,
       <<6,9,5,6,11,9,11,8,9,-1,-1,-1,-1,-1,-1,-1>>, <<3,6,11,0,6,3,0,5,6,0,9,5,-1,-1,-1,-1>>,
       <<0,11,8,0,5,11,0,1,5,5,6,11,-1,-1,-1,-1>>, <<6,11,3,6,3,5,5,3,1,-1,-1,-1,-1,-1,-1,-1>>,
       <<1,2,10,9,5,11,9,11,8,11,5,6,-1,-1,-1,-1>>, <<0,11,3,0,6,11,0,9,6,5,6,9,1,2,10,-1>>,
       <<11,8,5,11,5,6,8,0,5,10,5,2,0,2,5,-1>>, <<6,11,3,6,3,5,2,10,3,10,5,3,-1,-1,-1,-1>>,
       <<5,8,9,5,2,8,5,6,2,3,8,2,-1,-1,-1,-1>>, <<9,5,6,9,6,0,0,6,2,-1,-1,-1,-1,-1,-1,-1>>,
       <<1,5,8,1,8,0,5,6,8,3,8,2,6,2,8,-1>>, <<1,5,6,2,1,6,-1,-1,-1,-1,-1,-1,-1,-1,-1,-1>>,
       <<1,3,6,1,6,10,3,8,6,5,6,9,8,9,6,-1>>, <<10,1,0,10,0,6,9,5,0,5,6,0,-1,-1,-1,-1>>,
       <<0,3,8,5,6,10,-1,-1,-1,-1,-1,-1,-1,-1,-1,-1>>, <<10,5,6,-1,-1,-1,-1,-1,-1,-1,-1,-1,-1,-1,-1,-1>>,
       <<11,5,10,7,5,11,-1,-1,-1,-1,-1,-1,-1,-1,-1,-1>>, <<11,5,10,11,7,5,8,3,0,-1,-1,-1,-1,-1,-1,-1>>,
       <<5,11,7,5,10,11,1,9,0,-1,-1,-1,-1,-1,-1,-1>>, <<10,7,5,10,11,7,9,8,1,8,3,1,-1,-1,-1,-1>>,
       <<11,1,2,11,7,1,7,5,1,-1,-1,-1,-1,-1,-1,-1>>, <<0,8,3,1,2,7,1,7,5,7,2,11,-1,-1,-1,-1>>,
       <<9,7,5,9,2,7,9,0,2,2,11,7,-1,-1,-1,-1>>, <<7,5,2,7,2,11,5,9,2,3,2,8,9,8,2,-1>>,
       <<2,5,10,2,3,5,3,7,5,-1,-1,-1,-1,-1,-1,-1>>, <<8,2,0,8,5,2,8,7,5,10,2,5,-1,-1,-1,-1>>,
       <<9,0,1,5,10,3,5,3,7,3,10,2,-1,-1,-1,-1>>, <<9,8,2,9,2,1,8,7,2,10,2,5,7,5,2,-1>>,
       <<1,3,5,3,7,5,-1,-1,-1,-1,-1,-1,-1,-1,-1,-1>>, <<0,8,7,0,7,1,1,7,5,-1,-1,-1,-1,-1,-1,-1>>,
       <<9,0,3,9,3,5,5,3,7,-1,-1,-1,-1,-1,-1,-1>>, <<9,8,7,5,9,7,-1,-1,-1,-1,-1,-1,-1,-1,-1,-1>>,
       <<5,8,4,5,10,8,10,11,8,-1,-1,-1,-1,-1,-1,-1>>, <<5,0,4,5,11,0,5,10,11,11,3,0,-1,-1,-1,-1>>,
       <<0,1,9,8,4,10,8,10,11,10,4,5,-1,-1,-1,-1>>, <<10,11,4,10,4,5,11,3,4,9,4,1,3,1,4,-1>>,
       <<2,5,1,2,8,5,2,11,8,4,5,8,-1,-1,-1,-1>>, <<0,4,11,0,11,3,4,5,11,2,11,1,5,1,11,-1>>,
       <<0,2,5,0,5,9,2,11,5,4,5,8,11,8,5,-1>>, <<9,4,5,2,11,3,-1,-1,-1,-1,-1,-1,-1,-1,-1,-1>>,
       <<2,5,10,3,5,2,3,4,5,3,8,4,-1,-1,-1,-1>>, <<5,10,2,5,2,4,4,2,0,-1,-1,-1,-1,-1,-1,-1>>,
       <<3,10,2,3,5,10,3,8,5,4,5,8,0,1,9,-1>>, <<5,10,2,5,2,4,1,9,2,9,4,2,-1,-1,-1,-1>>,
       <<8,4,5,8,5,3,3,5,1,-1,-1,-1,-1,-1,-1,-1>>, <<0,4,5,1,0,5,-1,-1,-1,-1,-1,-1,-1,-1,-1,-1>>,
       <<8,4,5,8,5,3,9,0,5,0,3,5,-1,-1,-1,-1>>, <<9,4,5,-1,-1,-1,-1,-1,-1,-1,-1,-1,-1,-1,-1,-1>>,
       <<4,11,7,4,9,11,9,10,11,-1,-1,-1,-1,-1,-1,-1>>, <<0,8,3,4,9,7,9,11,7,9,10,11,-1,-1,-1,-1>>,
       <<1,10,11,1,11,4,1,4,0,7,4,11,-1,-1,-1,-1>>, <<3,1,4,3,4,8,1,10,4,7,4,11,10,11,4,-1>>,
       <<4,11,7,9,11,4,9,2,11,9,1,2,-1,-1,-1,-1>>, <<9,7,4,9,11,7,9,1,11,2,11,1,0,8,3,-1>>,
       <<11,7,4,11,4,2,2,4,0,-1,-1,-1,-1,-1,-1,-1>>, <<11,7,4,11,4,2,8,3,4,3,2,4,-1,-1,-1,-1>>,
       <<2,9,10,2,7,9,2,3,7,7,4,9,-1,-1,-1,-1>>, <<9,10,7,9,7,4,10,2,7,8,7,0,2,0,7,-1>>,
       <<3,7,10,3,10,2,7,4,10,1,10,0,4,0,10,-1>>, <<1,10,2,8,7,4,-1,-1,-1,-1,-1,-1,-1,-1,-1,-1>>,
       <<4,9,1,4,1,7,7,1,3,-1,-1,-1,-1,-1,-1,-1>>, <<4,9,1,4,1,7,0,8,1,8,7,1,-1,-1,-1,-1>>,
       <<4,0,3,7,4,3,-1,-1,-1,-1,-1,-1,-1,-1,-1,-1>>, <<4,8,7,-1,-1,-1,-1,-1,-1,-1,-1,-1,-1,-1,-1,-1>>,
       <<9,10,8,10,11,8,-1,-1,-1,-1,-1,-1,-1,-1,-1,-1>>, <<3,0,9,3,9,11,11,9,10,-1,-1,-1,-1,-1,-1,-1>>,
       <<0,1,10,0,10,8,8,10,11,-1,-1,-1,-1,-1,-1,-1>>, <<3,1,10,11,3,10,-1,-1,-1,-1,-1,-1,-1,-1,-1,-1>>,
       <<1,2,11,1,11,9,9,11,8,-1,-1,-1,-1,-1,-1,-1>>, <<3,0,9,3,9,11,1,2,9,2,11,9,-1,-1,-1,-1>>,
       <<0,2,11,8,0,11,-1,-1,-1,-1,-1,-1,-1,-1,-1,-1>>, <<3,2,11,-1,-1,-1,-1,-1,-1,-1,-1,-1,-1,-1,-1,-1>>,
       <<2,3,8,2,8,10,10,8,9,-1,-1,-1,-1,-1,-1,-1>>, <<9,10,2,0,9,2,-1,-1,-1,-1,-1,-1,-1,-1,-1,-1>>,
       <<2,3,8,2,8,10,0,1,8,1,10,8,-1,-1,-1,-1>>, <<1,10,2,-1,-1,-1,-1,-1,-1,-1,-1,-1,-1,-1,-1,-1>>,
       <<1,3,8,9,1,8,-1,-1,-1,-1,-1,-1,-1,-1,-1,-1>>, <<0,9,1,-1,-1,-1,-1,-1,-1,-1,-1,-1,-1,-1,-1,-1>>,
       <<0,3,8,-1,-1,-1,-1,-1,-1,-1,-1,-1,-1,-1,-1,-1>>, <<-1,-1,-1,-1,-1,-1,-1,-1,-1,-1,-1,-1,-1,-1,-1,-1>>
    >>

(***************************************************************************)
(* Bit and byte operations                                                 *)
(***************************************************************************)
RECURSIVE BitAnd(_, _)
BitAnd(a, b) ==
    IF a = 0 \/ b = 0 THEN 0
    ELSE (a % 2) * (b % 2) + 2 * BitAnd(a \div 2, b \div 2)

\* w & m on unsigned int cells
WordAnd(w, m) == <<BitAnd(w[1], m[1]), BitAnd(w[2], m[2]), BitAnd(w[3], m[3]), BitAnd(w[4], m[4])>>

\* the value of a cell whose top byte is below 128
WordVal(w) == w[1] + 256 * w[2] + 65536 * w[3] + 16777216 * w[4]

\* the conversion of an unsigned int to unsigned char
ToUChar(n) == n % 256

\* temp[w] of `unsigned int* temp = (unsigned int*)new_vol' is not zero
WordNonZero(new_vol, w) == \E k \in 0..3 : new_vol[w * 4 + k] # 0

(***************************************************************************)
(* init_lower_label, create_binary_mask, gaussian_blur: one work unit      *)
(***************************************************************************)
\* a variant of init_lower_label that seeds byte 1 of the record
init_lower_label_UpperByte(vol_new, vol, blockIdx, gridDim) ==
    LET idx1d == flatten_3d_to_1d(blockIdx, gridDim)
    IN  [vol_new EXCEPT ![idx1d * 4 + 1] = ToUChar(WordVal(WordAnd(vol[idx1d], MED_MASK)))]

\* a variant of init_lower_label in which every unit also stores its label in
\* byte 1 of the first record
init_lower_label_SharedByte(vol_new, vol, blockIdx, gridDim) ==
    LET idx1d == flatten_3d_to_1d(blockIdx, gridDim)
    IN  [vol_new EXCEPT ![idx1d * 4 + 0] = ToUChar(WordVal(WordAnd(vol[idx1d], MED_MASK))),
                        ![1] = ToUChar(WordVal(WordAnd(vol[idx1d], MED_MASK)))]

init_lower_label(vol_new, vol, blockIdx, gridDim) ==
    LET idx1d == flatten_3d_to_1d(blockIdx, gridDim)
    IN  [vol_new EXCEPT ![idx1d * 4 + 0] = ToUChar(WordVal(WordAnd(vol[idx1d], MED_MASK)))]

\* a variant of create_binary_mask that compares the whole cell with the label
create_binary_mask_NoMask(binary_mask, vol, label, blockIdx, gridDim) ==
    LET idx1d == flatten_3d_to_1d(blockIdx, gridDim)
    IN  [binary_mask EXCEPT ![idx1d] =
            IF vol[idx1d] = <<label % 256, (label \div 256) % 256, 0, 0>> THEN ONE ELSE 0]

create_binary_mask(binary_mask, vol, label, blockIdx, gridDim) ==
    LET idx1d == flatten_3d_to_1d(blockIdx, gridDim)
    IN  [binary_mask EXCEPT ![idx1d] =
            IF WordVal(WordAnd(vol[idx1d], MED_MASK)) = label THEN ONE ELSE 0]

\* the kernel offsets (i, j, k) in loop order
KernelOffsets ==
    [n \in 0..(MCX_SVMC_GKERNEL_SIZE * MCX_SVMC_GKERNEL_SIZE * MCX_SVMC_GKERNEL_SIZE - 1) |->
        <<n \div (MCX_SVMC_GKERNEL_SIZE * MCX_SVMC_GKERNEL_SIZE),
          (n \div MCX_SVMC_GKERNEL_SIZE) % MCX_SVMC_GKERNEL_SIZE,
          n % MCX_SVMC_GKERNEL_SIZE>>]

\* a variant of BlurTerm that reads binary_mask with the unpadded grid extent
BlurTerm_Unpadded(binary_mask, gfilter, blockIdx, gridDim, o) ==
    LET ksize == <<MCX_SVMC_GKERNEL_SIZE, MCX_SVMC_GKERNEL_SIZE, MCX_SVMC_GKERNEL_SIZE>>
    IN  FMul(binary_mask[flatten_3d_to_1d(VAdd(blockIdx, o), gridDim)],
             gfilter[flatten_3d_to_1d(<<MCX_SVMC_GKERNEL_SIZE - 1 - o[1],
                                        MCX_SVMC_GKERNEL_SIZE - 1 - o[2],
                                        MCX_SVMC_GKERNEL_SIZE - 1 - o[3]>>, ksize)])

\* the term of `temp +=' for the offset o = (i, j, k)
BlurTerm(binary_mask, gfilter, blockIdx, gridDim, o) ==
    LET pad_size == MCX_SVMC_GKERNEL_SIZE \div 2
        ksize    == <<MCX_SVMC_GKERNEL_SIZE, MCX_SVMC_GKERNEL_SIZE, MCX_SVMC_GKERNEL_SIZE>>
    IN  FMul(binary_mask[flatten_3d_to_1d(VAdd(blockIdx, o), PaddedDim(gridDim, pad_size))],
             gfilter[flatten_3d_to_1d(<<MCX_SVMC_GKERNEL_SIZE - 1 - o[1],
                                        MCX_SVMC_GKERNEL_SIZE - 1 - o[2],
                                        MCX_SVMC_GKERNEL_SIZE - 1 - o[3]>>, ksize)])

gaussian_blur(mask, binary_mask, gfilter, blockIdx, gridDim) ==
    LET terms == [n \in DOMAIN KernelOffsets |->
                     BlurTerm(binary_mask, gfilter, blockIdx, gridDim, KernelOffsets[n])]
    IN  [mask EXCEPT ![flatten_3d_to_1d(blockIdx, gridDim)] =
            SumTo(terms, MCX_SVMC_GKERNEL_SIZE * MCX_SVMC_GKERNEL_SIZE * MCX_SVMC_GKERNEL_SIZE)]

(***************************************************************************)
(* split_voxel: one work unit                                              *)
(***************************************************************************)
\* a float3 holding NaN in every component; also what the model reads from an
\* isosurface_vertices entry that was never assigned
NaN3 == <<NaN, NaN, NaN>>

\* cube_values[i], i in 0..7
CubeValues(scalar_field, blockIdx, vol_dim) ==
    [i \in 0..7 |->
        scalar_field[flatten_3d_to_1d(VAdd(blockIdx, cube_vertices_local[i + 1]), vol_dim)]]

\* a variant of CubeIndex that counts a value equal to the isovalue as below it
CubeIndex_AtOrBelow(cube_values) ==
    SumTo([i \in 0..7 |-> IF cube_values[i] <= MCX_SVMC_ISOVALUE THEN 2^i ELSE 0], 8)

\* cube_index: bit i is set when cube_values[i] < MCX_SVMC_ISOVALUE
CubeIndex(cube_values) ==
    SumTo([i \in 0..7 |-> IF cube_values[i] < MCX_SVMC_ISOVALUE THEN 2^i ELSE 0], 8)

\* a and b are cube corners (components 0 or 1); the result has 12 fractional bits
interpolate(a, b, a_val, b_val, isovalue) ==
    IF b_val = a_val THEN <<a[1] * GONE, a[2] * GONE, a[3] * GONE>>
    ELSE LET t == FDivBits(isovalue - b_val, a_val - b_val, 12)
         IN  <<b[1] * GONE + (a[1] - b[1]) * t,
               b[2] * GONE + (a[2] - b[2]) * t,
               b[3] * GONE + (a[3] - b[3]) * t>>

\* a variant of IsosurfaceVertices whose loop stops after edge 7
IsosurfaceVertices_EightEdges(cube_values, cube_index) ==
    [i \in 0..11 |->
        IF i < 8 /\ (edge_intersections[cube_index + 1] \div (2^i)) % 2 = 1
        THEN interpolate(cube_vertices_local[edge_vertices[i + 1][1] + 1],
                         cube_vertices_local[edge_vertices[i + 1][2] + 1],
                         cube_values[edge_vertices[i + 1][1]],
                         cube_values[edge_vertices[i + 1][2]],
                         MCX_SVMC_ISOVALUE)
        ELSE NaN3]

\* isosurface_vertices[i], i in 0..11
IsosurfaceVertices(cube_values, cube_index) ==
    [i \in 0..11 |->
        IF (edge_intersections[cube_index + 1] \div (2^i)) % 2 = 1
        THEN interpolate(cube_vertices_local[edge_vertices[i + 1][1] + 1],
                         cube_vertices_local[edge_vertices[i + 1][2] + 1],
                         cube_values[edge_vertices[i + 1][1]],
                         cube_values[edge_vertices[i + 1][2]],
                         MCX_SVMC_ISOVALUE)
        ELSE NaN3]

\* area (25 fractional bits) times a position component (12 fractional bits)
AreaTimesPos(area, c) == (area \div 4096) * c + ((area % 4096) * c) \div 4096

\* area (25 fractional bits) times a normal component (24 fractional bits)
AreaTimesNormal(area, n) == IF n = NaN THEN NaN ELSE Sgn(n) * MulMag(area, Abs(n))

NaNAdd(a, b) == IF a = NaN \/ b = NaN THEN NaN ELSE a + b

\* the body of the triangle loop for the triangle starting at column i
TriangleStep(acc, verts, row, i) ==
    LET A == verts[row[i + 1]]
        B == verts[row[i + 2]]
        C == verts[row[i + 3]]
    IN  IF A = NaN3 \/ B = NaN3 \/ C = NaN3
        THEN [area |-> acc.area, normal |-> NaN3, centroid |-> NaN3]
        ELSE
        LET AB_x_AC == cross(VSub(B, A), VSub(C, A))
            triangle_area == length(AB_x_AC)
            triangle_normal ==
                IF triangle_area = 0 THEN NaN3
                ELSE <<FDiv(AB_x_AC[1], triangle_area),
                       FDiv(AB_x_AC[2], triangle_area),
                       FDiv(AB_x_AC[3], triangle_area)>>
            s == VAdd(VAdd(A, B), C)
            triangle_centroid == <<s[1] \div 3, s[2] \div 3, s[3] \div 3>>
        IN  [area |-> acc.area + triangle_area,
             normal |-> [k \in 1..3 |->
                            NaNAdd(acc.normal[k], AreaTimesNormal(triangle_area, triangle_normal[k]))],
             centroid |-> [k \in 1..3 |->
                            NaNAdd(acc.centroid[k], AreaTimesPos(triangle_area, triangle_centroid[k]))]]

RECURSIVE TriangleLoop(_, _, _, _)
\* for (i = 0; triangle_vertices[cube_index][i] != -1; i += 3)
TriangleLoop(acc, verts, row, i) ==
    IF row[i + 1] = -1 THEN acc
    ELSE TriangleLoop(TriangleStep(acc, verts, row, i), verts, row, i + 3)

\* a variant of Isosurface that does not negate the normal
Isosurface_NoNegation(cube_values, cube_index) ==
    LET acc == TriangleLoop([area |-> 0, normal |-> <<0, 0, 0>>, centroid |-> <<0, 0, 0>>],
                            IsosurfaceVertices(cube_values, cube_index),
                            triangle_vertices[cube_index + 1], 0)
    IN  [area |-> acc.area,
         normal |-> [k \in 1..3 |->
                        IF acc.normal[k] = NaN \/ acc.area = 0 THEN NaN
                        ELSE FDiv(acc.normal[k], acc.area)],
         centroid |-> [k \in 1..3 |->
                        IF acc.centroid[k] = NaN \/ acc.area = 0 THEN NaN
                        ELSE FDivBits(acc.centroid[k], acc.area, 12)]]

\* isosurface_area, isosurface_normal and isosurface_centroid after the two divisions
Isosurface(cube_values, cube_index) ==
    LET acc == TriangleLoop([area |-> 0, normal |-> <<0, 0, 0>>, centroid |-> <<0, 0, 0>>],
                            IsosurfaceVertices(cube_values, cube_index),
                            triangle_vertices[cube_index + 1], 0)
    IN  [area |-> acc.area,
         normal |-> [k \in 1..3 |->
                        IF acc.normal[k] = NaN \/ acc.area = 0 THEN NaN
                        ELSE FDiv(-acc.normal[k], acc.area)],
         centroid |-> [k \in 1..3 |->
                        IF acc.centroid[k] = NaN \/ acc.area = 0 THEN NaN
                        ELSE FDivBits(acc.centroid[k], acc.area, 12)]]

\* (unsigned char)(c * 255.0f); ub is what the conversion of a NaN or of a value
\* outside 0..255 yields
CentroidByte(c, ub) ==
    IF c = NaN \/ c < 0 \/ (c * 255) \div 4096 > 255 THEN ub ELSE (c * 255) \div 4096

\* a variant of NormalLevel that rounds to the nearest level
NormalLevel_Round(n) ==
    LET m == n + ONE
    IN  ((m \div 512) * 255 + ((m % 512) * 255) \div 512 + 32768) \div 65536

\* floorf((n + 1.0f) * 255.0f * 0.5f) for n + 1.0f >= 0
NormalLevel(n) ==
    LET m == n + ONE
    IN  ((m \div 512) * 255 + ((m % 512) * 255) \div 512) \div 65536

Min(a, b) == IF a < b THEN a ELSE b

\* a variant of NormalByte without the cap of 254
NormalByte_NoCap(n, ub) ==
    IF n = NaN \/ n + ONE < 0 \/ NormalLevel(n) > 255 THEN ub ELSE NormalLevel(n)

\* min((unsigned char)floorf((n + 1.0f) * 255.0f * 0.5f), 254)
NormalByte(n, ub) ==
    Min(IF n = NaN \/ n + ONE < 0 \/ NormalLevel(n) > 255 THEN ub ELSE NormalLevel(n), 254)

\* whether the unit converts a value whose conversion is undefined
SplitUndefined(scalar_field, blockIdx, gridDim) ==
    LET cube_values == CubeValues(scalar_field, blockIdx, VAdd(gridDim, <<1, 1, 1>>))
        cube_index  == CubeIndex(cube_values)
        iso         == Isosurface(cube_values, cube_index)
    IN  /\ cube_index # 0
        /\ cube_index # 255
        /\ \E k \in 1..3 :
               \/ CentroidByte(iso.centroid[k], 0) # CentroidByte(iso.centroid[k], 1)
               \/ NormalByte(iso.normal[k], 0) # NormalByte(iso.normal[k], 1)

\* a variant of split_voxel that never takes the upper-label branch
split_voxel_Overwrite(scalar_field, new_vol, label, blockIdx, gridDim, ub) ==
    LET cube_idx3d  == VAdd(blockIdx, <<1, 1, 1>>)
        vol_dim     == VAdd(gridDim, <<1, 1, 1>>)
        cube_values == CubeValues(scalar_field, blockIdx, vol_dim)
        cube_index  == CubeIndex(cube_values)
    IN  IF cube_index = 0 \/ cube_index = 255 THEN new_vol
        ELSE
        LET iso        == Isosurface(cube_values, cube_index)
            idx1d      == flatten_3d_to_1d(cube_idx3d, vol_dim)
            vol_length == VolLength(vol_dim)
        IN  IF FALSE
            THEN [new_vol EXCEPT ![idx1d * 4 + 1] = ToUChar(label)]
            ELSE [new_vol EXCEPT
                     ![idx1d * 4 + 0] = ToUChar(label),
                     ![idx1d * 4 + 2] = CentroidByte(iso.centroid[1], ub),
                     ![idx1d * 4 + 3] = CentroidByte(iso.centroid[2], ub),
                     ![(idx1d + vol_length) * 4 + 0] = CentroidByte(iso.centroid[3], ub),
                     ![(idx1d + vol_length) * 4 + 1] = NormalByte(iso.normal[1], ub),
                     ![(idx1d + vol_length) * 4 + 2] = NormalByte(iso.normal[2], ub),
                     ![(idx1d + vol_length) * 4 + 3] = NormalByte(iso.normal[3], ub)]

\* a variant of split_voxel whose first write also sets the upper label
split_voxel_BothLabels(scalar_field, new_vol, label, blockIdx, gridDim, ub) ==
    LET cube_idx3d  == VAdd(blockIdx, <<1, 1, 1>>)
        vol_dim     == VAdd(gridDim, <<1, 1, 1>>)
        cube_values == CubeValues(scalar_field, blockIdx, vol_dim)
        cube_index  == CubeIndex(cube_values)
    IN  IF cube_index = 0 \/ cube_index = 255 THEN new_vol
        ELSE
        LET iso        == Isosurface(cube_values, cube_index)
            idx1d      == flatten_3d_to_1d(cube_idx3d, vol_dim)
            vol_length == VolLength(vol_dim)
        IN  IF WordNonZero(new_vol, idx1d + vol_length)
            THEN [new_vol EXCEPT ![idx1d * 4 + 1] = ToUChar(label)]
            ELSE [new_vol EXCEPT
                     ![idx1d * 4 + 0] = ToUChar(label),
                     ![idx1d * 4 + 1] = ToUChar(label),
                     ![idx1d * 4 + 2] = CentroidByte(iso.centroid[1], ub),
                     ![idx1d * 4 + 3] = CentroidByte(iso.centroid[2], ub),
                     ![(idx1d + vol_length) * 4 + 0] = CentroidByte(iso.centroid[3], ub),
                     ![(idx1d + vol_length) * 4 + 1] = NormalByte(iso.normal[1], ub),
                     ![(idx1d + vol_length) * 4 + 2] = NormalByte(iso.normal[2], ub),
                     ![(idx1d + vol_length) * 4 + 3] = NormalByte(iso.normal[3], ub)]

\* a variant of split_voxel whose later labels write the lower label
split_voxel_SecondToLower(scalar_field, new_vol, label, blockIdx, gridDim, ub) ==
    LET cube_idx3d  == VAdd(blockIdx, <<1, 1, 1>>)
        vol_dim     == VAdd(gridDim, <<1, 1, 1>>)
        cube_values == CubeValues(scalar_field, blockIdx, vol_dim)
        cube_index  == CubeIndex(cube_values)
    IN  IF cube_index = 0 \/ cube_index = 255 THEN new_vol
        ELSE
        LET iso        == Isosurface(cube_values, cube_index)
            idx1d      == flatten_3d_to_1d(cube_idx3d, vol_dim)
            vol_length == VolLength(vol_dim)
        IN  IF WordNonZero(new_vol, idx1d + vol_length)
            THEN [new_vol EXCEPT ![idx1d * 4 + 0] = ToUChar(label)]
            ELSE [new_vol EXCEPT
                     ![idx1d * 4 + 0] = ToUChar(label),
                     ![idx1d * 4 + 2] = CentroidByte(iso.centroid[1], ub),
                     ![idx1d * 4 + 3] = CentroidByte(iso.centroid[2], ub),
                     ![(idx1d + vol_length) * 4 + 0] = CentroidByte(iso.centroid[3], ub),
                     ![(idx1d + vol_length) * 4 + 1] = NormalByte(iso.normal[1], ub),
                     ![(idx1d + vol_length) * 4 + 2] = NormalByte(iso.normal[2], ub),
                     ![(idx1d + vol_length) * 4 + 3] = NormalByte(iso.normal[3], ub)]

\* a variant of split_voxel that leaves the normal of the first write unset
split_voxel_Unmarked(scalar_field, new_vol, label, blockIdx, gridDim, ub) ==
    LET cube_idx3d  == VAdd(blockIdx, <<1, 1, 1>>)
        vol_dim     == VAdd(gridDim, <<1, 1, 1>>)
        cube_values == CubeValues(scalar_field, blockIdx, vol_dim)
        cube_index  == CubeIndex(cube_values)
    IN  IF cube_index = 0 \/ cube_index = 255 THEN new_vol
        ELSE
        LET iso        == Isosurface(cube_values, cube_index)
            idx1d      == flatten_3d_to_1d(cube_idx3d, vol_dim)
            vol_length == VolLength(vol_dim)
        IN  IF WordNonZero(new_vol, idx1d + vol_length)
            THEN [new_vol EXCEPT ![idx1d * 4 + 1] = ToUChar(label)]
            ELSE [new_vol EXCEPT
                     ![idx1d * 4 + 0] = ToUChar(label),
                     ![idx1d * 4 + 2] = CentroidByte(iso.centroid[1], ub),
                     ![idx1d * 4 + 3] = CentroidByte(iso.centroid[2], ub),
                     ![(idx1d + vol_length) * 4 + 0] = CentroidByte(iso.centroid[3], ub),
                     ![(idx1d + vol_length) * 4 + 1] = 0,
                     ![(idx1d + vol_length) * 4 + 2] = 0,
                     ![(idx1d + vol_length) * 4 + 3] = 0]

\* a variant of split_voxel that writes the record of the voxel blockIdx
split_voxel_NoOffset(scalar_field, new_vol, label, blockIdx, gridDim, ub) ==
    LET cube_idx3d  == blockIdx
        vol_dim     == VAdd(gridDim, <<1, 1, 1>>)
        cube_values == CubeValues(scalar_field, blockIdx, vol_dim)
        cube_index  == CubeIndex(cube_values)
    IN  IF cube_index = 0 \/ cube_index = 255 THEN new_vol
        ELSE
        LET iso        == Isosurface(cube_values, cube_index)
            idx1d      == flatten_3d_to_1d(cube_idx3d, vol_dim)
            vol_length == VolLength(vol_dim)
        IN  IF WordNonZero(new_vol, idx1d + vol_length)
            THEN [new_vol EXCEPT ![idx1d * 4 + 1] = ToUChar(label)]
            ELSE [new_vol EXCEPT
                     ![idx1d * 4 + 0] = ToUChar(label),
                     ![idx1d * 4 + 2] = CentroidByte(iso.centroid[1], ub),
                     ![idx1d * 4 + 3] = CentroidByte(iso.centroid[2], ub),
                     ![(idx1d + vol_length) * 4 + 0] = CentroidByte(iso.centroid[3], ub),
                     ![(idx1d + vol_length) * 4 + 1] = NormalByte(iso.normal[1], ub),
                     ![(idx1d + vol_length) * 4 + 2] = NormalByte(iso.normal[2], ub),
                     ![(idx1d + vol_length) * 4 + 3] = NormalByte(iso.normal[3], ub)]

\* a variant of split_voxel that writes the upper label only while it is 0
split_voxel_FirstUpper(scalar_field, new_vol, label, blockIdx, gridDim, ub) ==
    LET cube_idx3d  == VAdd(blockIdx, <<1, 1, 1>>)
        vol_dim     == VAdd(gridDim, <<1, 1, 1>>)
        cube_values == CubeValues(scalar_field, blockIdx, vol_dim)
        cube_index  == CubeIndex(cube_values)
    IN  IF cube_index = 0 \/ cube_index = 255 THEN new_vol
        ELSE
        LET iso        == Isosurface(cube_values, cube_index)
            idx1d      == flatten_3d_to_1d(cube_idx3d, vol_dim)
            vol_length == VolLength(vol_dim)
        IN  IF WordNonZero(new_vol, idx1d + vol_length)
            THEN IF new_vol[idx1d * 4 + 1] # 0 THEN new_vol
                 ELSE [new_vol EXCEPT ![idx1d * 4 + 1] = ToUChar(label)]
            ELSE [new_vol EXCEPT
                     ![idx1d * 4 + 0] = ToUChar(label),
                     ![idx1d * 4 + 2] = CentroidByte(iso.centroid[1], ub),
                     ![idx1d * 4 + 3] = CentroidByte(iso.centroid[2], ub),
                     ![(idx1d + vol_length) * 4 + 0] = CentroidByte(iso.centroid[3], ub),
                     ![(idx1d + vol_length) * 4 + 1] = NormalByte(iso.normal[1], ub),
                     ![(idx1d + vol_length) * 4 + 2] = NormalByte(iso.normal[2], ub),
                     ![(idx1d + vol_length) * 4 + 3] = NormalByte(iso.normal[3], ub)]

split_voxel(scalar_field, new_vol, label, blockIdx, gridDim, ub) ==
    LET cube_idx3d  == VAdd(blockIdx, <<1, 1, 1>>)
        vol_dim     == VAdd(gridDim, <<1, 1, 1>>)
        cube_values == CubeValues(scalar_field, blockIdx, vol_dim)
        cube_index  == CubeIndex(cube_values)
    IN  IF cube_index = 0 \/ cube_index = 255 THEN new_vol
        ELSE
        LET iso        == Isosurface(cube_values, cube_index)
            idx1d      == flatten_3d_to_1d(cube_idx3d, vol_dim)
            vol_length == VolLength(vol_dim)
        IN  IF WordNonZero(new_vol, idx1d + vol_length)
            THEN [new_vol EXCEPT ![idx1d * 4 + 1] = ToUChar(label)]
            ELSE [new_vol EXCEPT
                     ![idx1d * 4 + 0] = ToUChar(label),
                     ![idx1d * 4 + 2] = CentroidByte(iso.centroid[1], ub),
                     ![idx1d * 4 + 3] = CentroidByte(iso.centroid[2], ub),
                     ![(idx1d + vol_length) * 4 + 0] = CentroidByte(iso.centroid[3], ub),
                     ![(idx1d + vol_length) * 4 + 1] = NormalByte(iso.normal[1], ub),
                     ![(idx1d + vol_length) * 4 + 2] = NormalByte(iso.normal[2], ub),
                     ![(idx1d + vol_length) * 4 + 3] = NormalByte(iso.normal[3], ub)]

(***************************************************************************)
(* Kernel launches: the work units lo..hi-1 of the grid (hi > lo), in index *)
(* order.  The range is halved, and the first half is computed before the  *)
(* second starts (the test half = <<>> is never true), to keep the         *)
(* evaluation shallow.                                                     *)
(***************************************************************************)
RECURSIVE LaunchInitLowerLabel(_, _, _, _, _)
LaunchInitLowerLabel(vol_new, vol, gridDim, lo, hi) ==
    IF hi - lo = 1 THEN init_lower_label(vol_new, vol, Unflatten(lo, gridDim), gridDim)
    ELSE LET mid  == (lo + hi) \div 2
             half == LaunchInitLowerLabel(vol_new, vol, gridDim, lo, mid)
         IN  IF half = <<>> THEN half ELSE LaunchInitLowerLabel(half, vol, gridDim, mid, hi)

RECURSIVE LaunchCreateBinaryMask(_, _, _, _, _, _)
LaunchCreateBinaryMask(binary_mask, vol, label, gridDim, lo, hi) ==
    IF hi - lo = 1 THEN create_binary_mask(binary_mask, vol, label, Unflatten(lo, gridDim), gridDim)
    ELSE LET mid  == (lo + hi) \div 2
             half == LaunchCreateBinaryMask(binary_mask, vol, label, gridDim, lo, mid)
         IN  IF half = <<>> THEN half ELSE LaunchCreateBinaryMask(half, vol, label, gridDim, mid, hi)

RECURSIVE LaunchGaussianBlur(_, _, _, _, _, _)
LaunchGaussianBlur(mask, binary_mask, gfilter, gridDim, lo, hi) ==
    IF hi - lo = 1 THEN gaussian_blur(mask, binary_mask, gfilter, Unflatten(lo, gridDim), gridDim)
    ELSE LET mid  == (lo + hi) \div 2
             half == LaunchGaussianBlur(mask, binary_mask, gfilter, gridDim, lo, mid)
         IN  IF half = <<>> THEN half ELSE LaunchGaussianBlur(half, binary_mask, gfilter, gridDim, mid, hi)

RECURSIVE LaunchSplitVoxel(_, _, _, _, _, _, _)
LaunchSplitVoxel(scalar_field, new_vol, label, gridDim, ub, lo, hi) ==
    IF hi - lo = 1 THEN split_voxel(scalar_field, new_vol, label, Unflatten(lo, gridDim), gridDim, ub)
    ELSE LET mid  == (lo + hi) \div 2
             half == LaunchSplitVoxel(scalar_field, new_vol, label, gridDim, ub, lo, mid)
         IN  IF half = <<>> THEN half ELSE LaunchSplitVoxel(scalar_field, half, label, gridDim, ub, mid, hi)

\* the grid of the split_voxel launch: dim3(vol_dim.x - 1, vol_dim.y - 1, vol_dim.z - 1)
SplitGrid(vol_dim) == <<vol_dim[1] - 1, vol_dim[2] - 1, vol_dim[3] - 1>>

\* the voxels (1-D indices) whose cube the field classifies as crossed
CrossedVoxels(scalar_field, vol_dim) ==
    {flatten_3d_to_1d(VAdd(Unflatten(k, SplitGrid(vol_dim)), <<1, 1, 1>>), vol_dim) :
        k \in {u \in 0..(VolLength(SplitGrid(vol_dim)) - 1) :
                  CubeIndex(CubeValues(scalar_field, Unflatten(u, SplitGrid(vol_dim)), vol_dim))
                      \notin {0, 255}}}

\* the bytes a conversion with undefined behaviour may yield
UBBytes == {0, 255}

\* the choices of the launch: one when no unit converts an undefined value
SplitChoices(scalar_field, vol_dim) ==
    IF \E u \in 0..(VolLength(SplitGrid(vol_dim)) - 1) :
           SplitUndefined(scalar_field, Unflatten(u, SplitGrid(vol_dim)), SplitGrid(vol_dim))
    THEN UBBytes ELSE {0}

(***************************************************************************)
(* Buffers                                                                 *)
(***************************************************************************)
NULL == <<>>

\* n cells of freshly allocated, not yet written memory
Fresh(n) == [i \in 0..(n - 1) |-> NaN]

\* the unsigned int cells of an unsigned char buffer of 4 * n bytes
BytesToWords(bytes, n) ==
    [w \in 0..(n - 1) |-> <<bytes[4 * w], bytes[4 * w + 1], bytes[4 * w + 2], bytes[4 * w + 3]>>]

VARIABLES
    pc,     \* program location
    cfg,    \* the caller's Config: vol, volbuf, mediabyte, srcpos, dim, medianum, deviceid
    host,   \* host locals of mcx_svmc_preprocess: gpuid, vol_padded, filter, label
    dev,    \* the device: selected device, global buffers, the constant gfilter
    hist,   \* history: live allocations, the failing call site, calls of mcx_maskdet,
            \* and per voxel the labels whose field crossed the isovalue there
    fin,    \* the arguments of a function run on its own
    fout    \* its result buffer

vars == <<pc, cfg, host, dev, hist, fin, fout>>

pipeline == <<cfg, host, dev, hist>>

NoPipeline == cfg = NULL /\ host = NULL /\ dev = NULL /\ hist = NULL

(***************************************************************************)
(* pad_replicate_volume on its own: every extent and pad width within the  *)
(* bounds, on a volume whose cells are pairwise different                   *)
(***************************************************************************)
PadInit ==
    /\ pc = "pad_copy"
    /\ \E dx \in 1..MaxPadDim, dy \in 1..MaxPadDim, dz \in 1..MaxPadDim, p \in 0..MaxPad :
           fin = [dim |-> <<dx, dy, dz>>, pad_size |-> p,
                  vol |-> [n \in 0..(dx * dy * dz - 1) |-> Word(n + 1)]]
    /\ fout = <<>>
    /\ NoPipeline

PadCopy ==
    /\ pc = "pad_copy"
    /\ fout' = PadCopyIn(fin.vol, fin.pad_size, fin.dim)
    /\ pc' = PadPasses[1]
    /\ UNCHANGED <<fin, pipeline>>

PadStep ==
    /\ \E k \in 1..Len(PadPasses) :
           /\ pc = PadPasses[k]
           /\ fout' = PadPass(fout, PaddedDim(fin.dim, fin.pad_size), fin.pad_size, pc)
           /\ pc' = IF k < Len(PadPasses) THEN PadPasses[k + 1] ELSE "pad_done"
    /\ UNCHANGED <<fin, pipeline>>

PadNext == PadCopy \/ PadStep

SpecPad == PadInit /\ [][PadNext]_vars

(***************************************************************************)
(* gaussian_filter on its own: every kernel extent and deviation in bounds  *)
(***************************************************************************)
KernelInit ==
    /\ pc = "filter_fill"
    /\ \E sx \in 1..MaxKSize, sy \in 1..MaxKSize, sz \in 1..MaxKSize, s \in StdSet :
           fin = [size |-> <<sx, sy, sz>>, std |-> s]
    /\ fout = <<>>
    /\ NoPipeline

\* the first loop nest: the raw weights and their sum
KernelFill ==
    /\ pc = "filter_fill"
    /\ fout' = GaussianRaw(fin.size, fin.std)
    /\ pc' = "filter_normalize"
    /\ UNCHANGED <<fin, pipeline>>

\* the second loop nest
KernelNormalize ==
    /\ pc = "filter_normalize"
    /\ fout' = GaussianNormalize(fout, VolLength(fin.size))
    /\ pc' = "filter_done"
    /\ UNCHANGED <<fin, pipeline>>

KernelNext == KernelFill \/ KernelNormalize

SpecKernel == KernelInit /\ [][KernelNext]_vars

(***************************************************************************)
(* Inputs of mcx_svmc_preprocess                                           *)
(***************************************************************************)
\* largest medianum of the 2x2x2 volumes enumerated with every labelling
MaxMedia == 2

CubeDim == <<2, 2, 2>>

\* every labelling of the 2x2x2 volume with labels below m
Labelings(m) ==
    {[dim |-> CubeDim, medianum |-> m, lab |-> l] : l \in [0..(VolLength(CubeDim) - 1) -> 0..(m - 1)]}

\* 2x2x2 volumes of three labels that are constant along one axis
ColumnVolumes ==
    {[dim |-> CubeDim, medianum |-> 3,
      lab |-> [n \in 0..(VolLength(CubeDim) - 1) |->
                  LET c == Unflatten(n, CubeDim)
                  IN  f[IF axis = 1 THEN <<c[2], c[3]>>
                        ELSE IF axis = 2 THEN <<c[1], c[3]>> ELSE <<c[1], c[2]>>]]] :
        f \in [{0, 1} \X {0, 1} -> 0..2], axis \in 1..3}

PlanarDims == {<<2, 2, 3>>, <<3, 3, 4>>}

\* label 1 for z < h and label 2 for z >= h, medianum covering labels 0..2
PlanarVolume(dim, h) ==
    [dim |-> dim, medianum |-> 3,
     lab |-> [n \in 0..(VolLength(dim) - 1) |-> IF Unflatten(n, dim)[3] < h THEN 1 ELSE 2]]

PlanarVolumes == UNION {{PlanarVolume(d, h) : h \in 1..(d[3] - 1)} : d \in PlanarDims}

AllLabelings == UNION {Labelings(m) : m \in 1..MaxMedia}

\* the top byte of the caller's cells: clear, or carrying a flag above the label
HighBytes == {0, 128}

\* 2x2x2 volumes of three labels with label 0 on one face and labels 1 and 2
\* alternating on the opposite face
ThinVolumes ==
    {[dim |-> CubeDim, medianum |-> 3,
      lab |-> [n \in 0..(VolLength(CubeDim) - 1) |->
                  LET c == Unflatten(n, CubeDim)
                  IN  IF c[axis] = 0 THEN 0 ELSE 1 + ((c[1] + c[2] + c[3] + 1) % 2)]] :
        axis \in 1..3}

\* the volumes of the label loop, each with the top byte of its cells
LabelInputs ==
    (AllLabelings \X {0}) \cup ((ColumnVolumes \cup PlanarVolumes) \X HighBytes)
        \cup (ThinVolumes \X {0})

\* 2x2x2 volumes made of two slabs along z
SlabVolumes == {v \in AllLabelings : \A n \in 0..3 : v.lab[n] = v.lab[0] /\ v.lab[n + 4] = v.lab[4]}

HostInputs == SlabVolumes \cup PlanarVolumes

\* cfg->mediabyte: the widest single-label format, and two wider ones
MediaBytes == {4, 5, MEDIA_2LABEL_SPLIT}

\* cfg->srcpos, in units of 1/2
SrcPositions == {<<60, 61, 2>>, <<-1, 0, 7>>}

\* the caller's volume: the label in the low bytes, hb in the top byte
InputVol(in, hb) == [n \in DOMAIN in.lab |-> <<in.lab[n] % 256, in.lab[n] \div 256, 0, hb>>]

InitCfg(in, hb, mb, sp) ==
    [vol |-> InputVol(in, hb), volbuf |-> "caller", mediabyte |-> mb, srcpos |-> sp,
     dim |-> in.dim, medianum |-> in.medianum, deviceid |-> 1]

InitHost == [gpuid |-> -1, vol_padded |-> NULL, filter |-> NULL, label |-> 0]

InitDev ==
    [device |-> -1, gfilter |-> NULL, gvol_padded |-> NULL, gbinary_mask |-> NULL,
     gmask |-> NULL, gvol |-> NULL, gvol_new |-> NULL]

InitHist(c) ==
    [orig |-> c, live |-> {}, err |-> 0, maskdet |-> 0,
     crossed |-> [n \in DOMAIN c.vol |-> {}]]

Init ==
    /\ pc = "entry"
    /\ \E in \in HostInputs, hb \in HighBytes, mb \in MediaBytes, sp \in SrcPositions :
           cfg = InitCfg(in, hb, mb, sp)
    /\ host = InitHost
    /\ dev = InitDev
    /\ hist = InitHist(cfg)
    /\ fin = NULL
    /\ fout = NULL

(***************************************************************************)
(* mcx_svmc_preprocess                                                     *)
(***************************************************************************)
pad_size == MCX_SVMC_GKERNEL_SIZE \div 2

\* gaussian_filter(&filter, MCX_SVMC_GKERNEL_SIZE, ..., MCX_SVMC_GKERNEL_STD)
SvmcFilter ==
    gaussian_filter(<<MCX_SVMC_GKERNEL_SIZE, MCX_SVMC_GKERNEL_SIZE, MCX_SVMC_GKERNEL_SIZE>>,
                    MCX_SVMC_GKERNEL_STD)

vol_length == VolLength(cfg.dim)

vol_padded_length == VolLength(PaddedDim(cfg.dim, pad_size))

\* mcx_cu_assess on an error: the fatal handler, told the line of the call
Fatal(line) ==
    /\ pc' = "fatal"
    /\ hist' = [hist EXCEPT !.err = line]
    /\ UNCHANGED <<cfg, host, dev, fin, fout>>

\* a variant of Entry whose guard is "cfg->mediabyte > 5"
Entry_Above5 ==
    /\ pc = "entry"
    /\ pc' = IF cfg.mediabyte > 5 THEN "returned" ELSE "set_device"
    /\ UNCHANGED <<pipeline, fin, fout>>

\* "if (cfg->mediabyte > 4) return;"
Entry ==
    /\ pc = "entry"
    /\ pc' = IF cfg.mediabyte > 4 THEN "returned" ELSE "set_device"
    /\ UNCHANGED <<pipeline, fin, fout>>

SetDevice ==
    /\ pc = "set_device"
    /\ \/ /\ host' = [host EXCEPT !.gpuid = cfg.deviceid - 1]
          /\ dev' = [dev EXCEPT !.device = cfg.deviceid - 1]
          /\ pc' = "pad"
          /\ UNCHANGED <<cfg, hist, fin, fout>>
       \/ Fatal(563)

Pad ==
    /\ pc = "pad"
    /\ host' = [host EXCEPT !.vol_padded = pad_replicate_volume(cfg.vol, pad_size, cfg.dim)]
    /\ hist' = [hist EXCEPT !.live = @ \cup {"vol_padded"}]
    /\ pc' = "malloc_gvol_padded"
    /\ UNCHANGED <<cfg, dev, fin, fout>>

\* a variant of Malloc that notes a failure and makes the call again
Malloc_Retry(at, buf, n, line, next) ==
    /\ pc = at
    /\ \/ /\ dev' = [dev EXCEPT ![buf] = Fresh(n)]
          /\ hist' = [hist EXCEPT !.live = @ \cup {buf}]
          /\ pc' = next
          /\ UNCHANGED <<cfg, host, fin, fout>>
       \/ /\ hist.err # line
          /\ hist' = [hist EXCEPT !.err = line]
          /\ UNCHANGED <<pc, cfg, host, dev, fin, fout>>

\* CUDA_ASSERT(cudaMalloc(&buf, ...)) at program location at
Malloc(at, buf, n, line, next) ==
    /\ pc = at
    /\ \/ /\ dev' = [dev EXCEPT ![buf] = Fresh(n)]
          /\ hist' = [hist EXCEPT !.live = @ \cup {buf}]
          /\ pc' = next
          /\ UNCHANGED <<cfg, host, fin, fout>>
       \/ Fatal(line)

MallocGvolPadded == Malloc("malloc_gvol_padded", "gvol_padded", vol_padded_length, 578, "upload_padded")

UploadPadded ==
    /\ pc = "upload_padded"
    /\ \/ /\ dev' = [dev EXCEPT !.gvol_padded = host.vol_padded]
          /\ pc' = "filter"
          /\ UNCHANGED <<cfg, host, hist, fin, fout>>
       \/ Fatal(579)

Filter ==
    /\ pc = "filter"
    /\ host' = [host EXCEPT !.filter = SvmcFilter]
    /\ hist' = [hist EXCEPT !.live = @ \cup {"filter"}]
    /\ pc' = "upload_filter"
    /\ UNCHANGED <<cfg, dev, fin, fout>>

UploadFilter ==
    /\ pc = "upload_filter"
    /\ \/ /\ dev' = [dev EXCEPT !.gfilter = host.filter]
          /\ pc' = "malloc_gbinary_mask"
          /\ UNCHANGED <<cfg, host, hist, fin, fout>>
       \/ Fatal(584)

MallocGbinaryMask == Malloc("malloc_gbinary_mask", "gbinary_mask", vol_padded_length, 593, "malloc_gmask")

MallocGmask == Malloc("malloc_gmask", "gmask", vol_length, 594, "malloc_gvol")

MallocGvol == Malloc("malloc_gvol", "gvol", vol_length, 595, "malloc_gvol_new")

MallocGvolNew == Malloc("malloc_gvol_new", "gvol_new", 8 * vol_length, 596, "copy_vol")

CopyVol ==
    /\ pc = "copy_vol"
    /\ \/ /\ dev' = [dev EXCEPT !.gvol = cfg.vol]
          /\ pc' = "memset"
          /\ UNCHANGED <<cfg, host, hist, fin, fout>>
       \/ Fatal(599)

Memset ==
    /\ pc = "memset"
    /\ \/ /\ dev' = [dev EXCEPT !.gvol_new = [b \in 0..(8 * vol_length - 1) |-> 0]]
          /\ pc' = "init_lower_label"
          /\ UNCHANGED <<cfg, host, hist, fin, fout>>
       \/ Fatal(602)

\* the loop test "label < cfg->medianum"
LoopPc(label) == IF label < cfg.medianum THEN "create_binary_mask" ELSE "malloc_vol"

\* init_lower_label<<<grid, block>>>, cudaDeviceSynchronize, and "label = 0"
InitLowerLabel ==
    /\ pc = "init_lower_label"
    /\ dev' = [dev EXCEPT !.gvol_new = LaunchInitLowerLabel(dev.gvol_new, dev.gvol, cfg.dim, 0, vol_length)]
    /\ host' = [host EXCEPT !.label = 0]
    /\ pc' = LoopPc(0)
    /\ UNCHANGED <<cfg, hist, fin, fout>>

CreateBinaryMask ==
    /\ pc = "create_binary_mask"
    /\ dev' = [dev EXCEPT !.gbinary_mask =
           LaunchCreateBinaryMask(dev.gbinary_mask, dev.gvol_padded, host.label,
                                  PaddedDim(cfg.dim, pad_size), 0, vol_padded_length)]
    /\ pc' = "gaussian_blur"
    /\ UNCHANGED <<cfg, host, hist, fin, fout>>

GaussianBlur ==
    /\ pc = "gaussian_blur"
    /\ dev' = [dev EXCEPT !.gmask =
           LaunchGaussianBlur(dev.gmask, dev.gbinary_mask, dev.gfilter, cfg.dim, 0, vol_length)]
    /\ pc' = "split_voxel"
    /\ UNCHANGED <<cfg, host, hist, fin, fout>>

\* split_voxel<<<grid, block>>>, cudaDeviceSynchronize, and "++label"
SplitVoxel ==
    /\ pc = "split_voxel"
    /\ \E ub \in SplitChoices(dev.gmask, cfg.dim) :
           dev' = [dev EXCEPT !.gvol_new =
               LaunchSplitVoxel(dev.gmask, dev.gvol_new, host.label, SplitGrid(cfg.dim), ub,
                                0, VolLength(SplitGrid(cfg.dim)))]
    /\ hist' = [hist EXCEPT !.crossed =
           [n \in DOMAIN @ |-> IF n \in CrossedVoxels(dev.gmask, cfg.dim)
                               THEN @[n] \cup {host.label} ELSE @[n]]]
    /\ host' = [host EXCEPT !.label = @ + 1]
    /\ pc' = LoopPc(host.label + 1)
    /\ UNCHANGED <<cfg, fin, fout>>

\* cfg->vol = malloc(...): the caller's pointer now names a fresh buffer
MallocVol ==
    /\ pc = "malloc_vol"
    /\ cfg' = [cfg EXCEPT !.vol = [w \in 0..(2 * vol_length - 1) |-> <<NaN, NaN, NaN, NaN>>],
                          !.volbuf = "malloc"]
    /\ pc' = "download"
    /\ UNCHANGED <<host, dev, hist, fin, fout>>

Download ==
    /\ pc = "download"
    /\ \/ /\ cfg' = [cfg EXCEPT !.vol = BytesToWords(dev.gvol_new, 2 * VolLength(cfg.dim))]
          /\ pc' = "enable_svmc"
          /\ UNCHANGED <<host, dev, hist, fin, fout>>
       \/ Fatal(638)

\* a variant of EnableSvmc that leaves srcpos.z alone
EnableSvmc_XYOnly ==
    /\ pc = "enable_svmc"
    /\ cfg' = [cfg EXCEPT !.mediabyte = MEDIA_2LABEL_SPLIT,
                          !.srcpos = <<@[1] + 1, @[2] + 1, @[3]>>]
    /\ pc' = "maskdet"
    /\ UNCHANGED <<host, dev, hist, fin, fout>>

\* a variant of EnableSvmc after which mcx_maskdet is not called
EnableSvmc_NoMaskDet ==
    /\ pc = "enable_svmc"
    /\ cfg' = [cfg EXCEPT !.mediabyte = MEDIA_2LABEL_SPLIT,
                          !.srcpos = <<@[1] + 1, @[2] + 1, @[3] + 1>>]
    /\ pc' = "free_host"
    /\ UNCHANGED <<host, dev, hist, fin, fout>>

\* cfg->mediabyte = MEDIA_2LABEL_SPLIT; cfg->srcpos.{x,y,z} += 0.5f
EnableSvmc ==
    /\ pc = "enable_svmc"
    /\ cfg' = [cfg EXCEPT !.mediabyte = MEDIA_2LABEL_SPLIT,
                          !.srcpos = <<@[1] + 1, @[2] + 1, @[3] + 1>>]
    /\ pc' = "maskdet"
    /\ UNCHANGED <<host, dev, hist, fin, fout>>

\* mcx_maskdet(cfg), an external collaborator: the call is counted
MaskDet ==
    /\ pc = "maskdet"
    /\ hist' = [hist EXCEPT !.maskdet = @ + 1]
    /\ pc' = "free_host"
    /\ UNCHANGED <<cfg, host, dev, fin, fout>>

\* free(vol_padded); free(filter)
FreeHost ==
    /\ pc = "free_host"
    /\ hist' = [hist EXCEPT !.live = @ \ {"vol_padded", "filter"}]
    /\ pc' = "free_gvol_padded"
    /\ UNCHANGED <<cfg, host, dev, fin, fout>>

\* if (buf) CUDA_ASSERT(cudaFree(buf)) at program location at
Free(at, buf, line, next) ==
    /\ pc = at
    /\ \/ /\ hist' = [hist EXCEPT !.live = @ \ {buf}]
          /\ pc' = next
          /\ UNCHANGED <<cfg, host, dev, fin, fout>>
       \/ Fatal(line)

FreeGvolPadded == Free("free_gvol_padded", "gvol_padded", 663, "free_gbinary_mask")

FreeGbinaryMask == Free("free_gbinary_mask", "gbinary_mask", 667, "free_gmask")

FreeGmask == Free("free_gmask", "gmask", 671, "free_gvol")

FreeGvol == Free("free_gvol", "gvol", 675, "free_gvol_new")

FreeGvolNew == Free("free_gvol_new", "gvol_new", 679, "returned")

LabelLoop == InitLowerLabel \/ CreateBinaryMask \/ GaussianBlur \/ SplitVoxel

Next ==
    \/ Entry \/ SetDevice \/ Pad \/ MallocGvolPadded \/ UploadPadded \/ Filter \/ UploadFilter
    \/ MallocGbinaryMask \/ MallocGmask \/ MallocGvol \/ MallocGvolNew \/ CopyVol \/ Memset
    \/ InitLowerLabel \/ CreateBinaryMask \/ GaussianBlur \/ SplitVoxel
    \/ MallocVol \/ Download \/ EnableSvmc \/ MaskDet \/ FreeHost
    \/ FreeGvolPadded \/ FreeGbinaryMask \/ FreeGmask \/ FreeGvol \/ FreeGvolNew

Spec == Init /\ [][Next]_vars

(***************************************************************************)
(* The label loop on its own, from the state mcx_svmc_preprocess is in     *)
(* before the init_lower_label launch, on every input volume               *)
(***************************************************************************)
LoopCfg(in, hb) == InitCfg(in, hb, 4, <<0, 0, 0>>)

LoopInitOn(inputs) ==
    /\ pc = "init_lower_label"
    /\ \E in \in inputs : cfg = LoopCfg(in[1], in[2])
    /\ host = [gpuid |-> 0, label |-> 0,
               vol_padded |-> pad_replicate_volume(cfg.vol, pad_size, cfg.dim),
               filter |-> SvmcFilter]
    /\ dev = [device |-> 0, gfilter |-> host.filter, gvol_padded |-> host.vol_padded,
              gbinary_mask |-> Fresh(vol_padded_length), gmask |-> Fresh(vol_length),
              gvol |-> cfg.vol, gvol_new |-> [b \in 0..(8 * vol_length - 1) |-> 0]]
    /\ hist = [InitHist(cfg) EXCEPT
                  !.live = {"vol_padded", "filter", "gvol_padded", "gbinary_mask", "gmask",
                            "gvol", "gvol_new"}]
    /\ fin = NULL
    /\ fout = NULL

LoopInit == LoopInitOn(LabelInputs)

SpecLabels == LoopInit /\ [][LabelLoop]_vars

\* the label loop on the volumes of two labels, of three labels in columns, and
\* with a planar interface
OrderInputs == (Labelings(2) \cup ColumnVolumes \cup PlanarVolumes) \X {0}

OrderInit == LoopInitOn(OrderInputs)

SpecOrder == OrderInit /\ [][LabelLoop]_vars

(***************************************************************************)
(* The label loop as a function of the order in which it takes the labels; *)
(* mcx_svmc_preprocess takes them in the order 0, 1, ..., medianum - 1     *)
(***************************************************************************)
\* gmask after create_binary_mask and gaussian_blur for one label
SmoothedField(gvol_padded, gfilter, dim, label) ==
    LaunchGaussianBlur(Fresh(VolLength(dim)),
        LaunchCreateBinaryMask(Fresh(VolLength(PaddedDim(dim, pad_size))), gvol_padded, label,
                               PaddedDim(dim, pad_size), 0, VolLength(PaddedDim(dim, pad_size))),
        gfilter, dim, 0, VolLength(dim))

RECURSIVE LabelLoopFrom(_, _, _, _, _, _)
\* the loop body for order[k], order[k + 1], ...
LabelLoopFrom(gvol_new, gvol_padded, gfilter, dim, order, k) ==
    IF k > Len(order) THEN gvol_new
    ELSE LET next == LaunchSplitVoxel(SmoothedField(gvol_padded, gfilter, dim, order[k]),
                                      gvol_new, order[k], SplitGrid(dim), 0,
                                      0, VolLength(SplitGrid(dim)))
         IN  IF next = <<>> THEN next
             ELSE LabelLoopFrom(next, gvol_padded, gfilter, dim, order, k + 1)

\* gvol_new after the init_lower_label launch and the label loop taken in `order'
RunLabels(vol, dim, order) ==
    LabelLoopFrom(LaunchInitLowerLabel([b \in 0..(8 * VolLength(dim) - 1) |-> 0], vol, dim,
                                       0, VolLength(dim)),
                  pad_replicate_volume(vol, pad_size, dim), SvmcFilter, dim, order, 1)

(***************************************************************************)
(* split_voxel on its own: one work unit on a 2x2x2 scalar field whose      *)
(* corner values are drawn from CubeLevels, on a freshly seeded new volume  *)
(***************************************************************************)
\* 0.25, 0.5 and 0.875
CubeLevels == {ONE \div 4, ONE \div 2, 7 * (ONE \div 8)}

CubeInit ==
    /\ pc = "cube"
    /\ \E f \in [0..7 -> CubeLevels] : fin = [scalar_field |-> f, label |-> 1]
    /\ fout = [b \in 0..63 |-> 0]
    /\ NoPipeline

CubeSplit ==
    /\ pc = "cube"
    /\ \E ub \in SplitChoices(fin.scalar_field, CubeDim) :
           fout' = split_voxel(fin.scalar_field, fout, fin.label, <<0, 0, 0>>, <<1, 1, 1>>, ub)
    /\ pc' = "cube_done"
    /\ UNCHANGED <<fin, pipeline>>

SpecCube == CubeInit /\ [][CubeSplit]_vars

(***************************************************************************)
(* The label loop at the granularity of work units.  A kernel launch hands  *)
(* the units of its grid to the device and returns; the device runs the     *)
(* units it holds one at a time in an order of its own;                     *)
(* cudaDeviceSynchronize returns when the device holds no unit.             *)
(* fout.pending holds the units <<kernel, label, unit>> handed to the       *)
(* device and not yet run, fout.launches the launches made so far,          *)
(* fout.done the units run since the last launch, fout.before the buffer    *)
(* the last launched kernel writes as it was at the launch, and fout.after  *)
(* that buffer as the units leave it when run in index order.               *)
(***************************************************************************)
\* the largest grid whose units the device runs in every order; the units of a
\* larger grid are run from either end of the index range
MaxFreeUnits == 8

\* a variant of KernelGrid that launches split_voxel on the whole volume
KernelGrid_SplitFull(kernel, dim) ==
    CASE kernel = "init_lower_label"   -> dim
      [] kernel = "create_binary_mask" -> PaddedDim(dim, pad_size)
      [] kernel = "gaussian_blur"      -> dim
      [] kernel = "split_voxel"        -> dim

\* the grid of each launch of mcx_svmc_preprocess
KernelGrid(kernel, dim) ==
    CASE kernel = "init_lower_label"   -> dim
      [] kernel = "create_binary_mask" -> PaddedDim(dim, pad_size)
      [] kernel = "gaussian_blur"      -> dim
      [] kernel = "split_voxel"        -> SplitGrid(dim)

\* the buffer each kernel writes
KernelTarget(kernel) ==
    CASE kernel = "init_lower_label"   -> "gvol_new"
      [] kernel = "create_binary_mask" -> "gbinary_mask"
      [] kernel = "gaussian_blur"      -> "gmask"
      [] kernel = "split_voxel"        -> "gvol_new"

\* the buffers after the units lo..hi-1 of a kernel, run in index order
UnitEffect(d, kernel, label, dim, ub, lo, hi) ==
    CASE kernel = "init_lower_label" ->
             [d EXCEPT !.gvol_new = LaunchInitLowerLabel(@, d.gvol, dim, lo, hi)]
      [] kernel = "create_binary_mask" ->
             [d EXCEPT !.gbinary_mask =
                 LaunchCreateBinaryMask(@, d.gvol_padded, label, PaddedDim(dim, pad_size), lo, hi)]
      [] kernel = "gaussian_blur" ->
             [d EXCEPT !.gmask = LaunchGaussianBlur(@, d.gbinary_mask, d.gfilter, dim, lo, hi)]
      [] kernel = "split_voxel" ->
             [d EXCEPT !.gvol_new =
                 LaunchSplitVoxel(d.gmask, @, label, SplitGrid(dim), ub, lo, hi)]

\* the units the device may run next
UnitChoice(pending) ==
    IF \E p \in pending : VolLength(KernelGrid(p[1], cfg.dim)) > MaxFreeUnits
    THEN {p \in pending : \/ \A q \in pending : p[3] <= q[3]
                          \/ \A q \in pending : p[3] >= q[3]}
    ELSE pending

UnitsInit ==
    /\ pc = "init_lower_label"
    /\ \E in \in ({v \in Labelings(2) : \A n \in 0..3 : v.lab[n] = v.lab[0] /\ v.lab[n + 4] = v.lab[4]}
                       \cup {PlanarVolume(<<2, 2, 3>>, 1)}) :
           cfg = LoopCfg(in, 0)
    /\ host = [gpuid |-> 0, label |-> 0,
               vol_padded |-> pad_replicate_volume(cfg.vol, pad_size, cfg.dim),
               filter |-> SvmcFilter]
    /\ dev = [device |-> 0, gfilter |-> host.filter, gvol_padded |-> host.vol_padded,
              gbinary_mask |-> Fresh(vol_padded_length), gmask |-> Fresh(vol_length),
              gvol |-> cfg.vol, gvol_new |-> [b \in 0..(8 * vol_length - 1) |-> 0]]
    /\ hist = [InitHist(cfg) EXCEPT
                  !.live = {"vol_padded", "filter", "gvol_padded", "gbinary_mask", "gmask",
                            "gvol", "gvol_new"}]
    /\ fin = NULL
    /\ fout = [pending |-> {}, launches |-> <<>>, done |-> {}, before |-> NULL, after |-> NULL]

\* kernel <<< grid, block >>> (...): the launch returns at once
Enqueue(at, kernel, next) ==
    /\ pc = at
    /\ fout' = [pending  |-> fout.pending \cup
                                ({kernel} \X {host.label}
                                     \X (0..(VolLength(KernelGrid(kernel, cfg.dim)) - 1))),
                launches |-> Append(fout.launches, <<kernel, host.label>>),
                done     |-> {},
                before   |-> dev[KernelTarget(kernel)],
                after    |-> UnitEffect(dev, kernel, host.label, cfg.dim, 0, 0,
                                        VolLength(KernelGrid(kernel, cfg.dim)))[KernelTarget(kernel)]]
    /\ pc' = next
    /\ UNCHANGED <<cfg, host, dev, hist, fin>>

\* the device runs one of the units it holds; ub is what a conversion with
\* undefined behaviour yields in that unit (it is used by no other conversion)
RunUnit ==
    /\ \E p \in UnitChoice(fout.pending) :
           LET blockIdx == Unflatten(p[3], KernelGrid(p[1], cfg.dim))
               crossed  == /\ p[1] = "split_voxel"
                           /\ CubeIndex(CubeValues(dev.gmask, blockIdx, cfg.dim)) \notin {0, 255}
               voxel    == flatten_3d_to_1d(VAdd(blockIdx, <<1, 1, 1>>), cfg.dim)
           IN  /\ \E ub \in UBBytes :
                      dev' = UnitEffect(dev, p[1], p[2], cfg.dim, ub, p[3], p[3] + 1)
               /\ fout' = [fout EXCEPT !.pending = @ \ {p}, !.done = @ \cup {p}]
               /\ hist' = IF crossed
                          THEN [hist EXCEPT !.crossed[voxel] = @ \cup {p[2]}]
                          ELSE hist
    /\ UNCHANGED <<pc, cfg, host, fin>>

\* a variant of Synchronize that returns while the device still holds units
Synchronize_NoWait(at, next) ==
    /\ pc = at
    /\ pc' = next
    /\ UNCHANGED <<cfg, host, dev, hist, fin, fout>>

\* cudaDeviceSynchronize()
Synchronize(at, next) ==
    /\ pc = at
    /\ fout.pending = {}
    /\ pc' = next
    /\ UNCHANGED <<cfg, host, dev, hist, fin, fout>>

\* a variant of SynchronizeSplit that returns while the device still holds units
SynchronizeSplit_NoWait ==
    /\ pc = "sync_split_voxel"
    /\ host' = [host EXCEPT !.label = @ + 1]
    /\ pc' = LoopPc(host.label + 1)
    /\ UNCHANGED <<cfg, dev, hist, fin, fout>>

\* cudaDeviceSynchronize() after split_voxel, and "++label"
SynchronizeSplit ==
    /\ pc = "sync_split_voxel"
    /\ fout.pending = {}
    /\ host' = [host EXCEPT !.label = @ + 1]
    /\ pc' = LoopPc(host.label + 1)
    /\ UNCHANGED <<cfg, dev, hist, fin, fout>>

UnitsNext ==
    \/ Enqueue("init_lower_label", "init_lower_label", "sync_init_lower_label")
    \/ Synchronize("sync_init_lower_label", LoopPc(0))
    \/ Enqueue("create_binary_mask", "create_binary_mask", "sync_create_binary_mask")
    \/ Synchronize("sync_create_binary_mask", "gaussian_blur")
    \/ Enqueue("gaussian_blur", "gaussian_blur", "sync_gaussian_blur")
    \/ Synchronize("sync_gaussian_blur", "split_voxel")
    \/ Enqueue("split_voxel", "split_voxel", "sync_split_voxel")
    \/ SynchronizeSplit
    \/ RunUnit

SpecUnits == UnitsInit /\ [][UnitsNext]_vars

(***************************************************************************)
(* mcxdetpidx (src/mcxlab/mcxdetpidx.m): the detected photons that belong  *)
(* to a rectangular pattern detector, and the pixel of each.  A photon is  *)
(* a column of detp.data and of seeds.data together with its exit position *)
(* detp.p; `on' says that its coordinate along the detector axis equals    *)
(* detTo, and x and y are the two coordinates in the detector plane, in    *)
(* units of 1/12 of the detector's extent.  The quotient                   *)
(* (p - corner) / range * patternsize is computed exactly.                 *)
(***************************************************************************)
\* largest number of pixels of the pattern along each axis
MaxPattern == 3

\* largest number of detected photons
MaxPhotons == 2

\* the exit positions: off the detector plane, or on it at a position inside
\* the rectangle, on its upper edge or outside it
DetPhotons ==
    {[on |-> FALSE, x |-> 0, y |-> 0]}
        \cup {[on |-> TRUE, x |-> x, y |-> y] : x \in {-1, 0, 6, 11}, y \in {0, 11, 12}}

\* x(:, logic): the columns of x at which logic is true, in order
Keep(x, logic) ==
    LET idx == SelectSeq([i \in 1..Len(x) |-> i], LAMBDA i : logic[i])
    IN  [k \in 1..Len(idx) |-> x[idx[k]]]

\* the arguments of mcxdetpidx: column i of detp.data and of seeds.data is the
\* photon i
DetpInit ==
    /\ pc = "detp_plane"
    /\ \E P1 \in 1..MaxPattern, P2 \in 1..MaxPattern, n \in 0..MaxPhotons :
           \E p \in [1..n -> DetPhotons] :
               fin = [patternsize |-> <<P1, P2>>, detcorner |-> <<0, 0>>, range |-> <<12, 12>>,
                      p |-> p,
                      data |-> [i \in 1..n |-> <<"detp", i>>],
                      seeds |-> [i \in 1..n |-> <<"seed", i>>]]
    /\ fout = [newdata |-> <<>>, newseeds |-> <<>>, detpTo2 |-> <<>>,
               newindex1 |-> <<>>, newindex2 |-> <<>>, replaydetidx |-> <<>>]
    /\ NoPipeline

\* lines 62-65: the photons on the detector plane
SelectPlane ==
    /\ pc = "detp_plane"
    /\ LET logic == [i \in 1..Len(fin.p) |-> fin.p[i].on]
       IN  fout' = [fout EXCEPT
                       !.newdata  = Keep(fin.data, logic),
                       !.newseeds = Keep(fin.seeds, logic),
                       !.detpTo2  = Keep([i \in 1..Len(fin.p) |-> <<fin.p[i].x, fin.p[i].y>>],
                                         logic)]
    /\ pc' = "detp_pixel"
    /\ UNCHANGED <<fin, pipeline>>

\* lines 67-76: the pixel of each photon, and the photons inside the rectangle
PixelIndex ==
    /\ pc = "detp_pixel"
    /\ LET patternsize == fin.patternsize
           index1 == [k \in 1..Len(fout.detpTo2) |->
                         ((fout.detpTo2[k][1] - fin.detcorner[1]) * patternsize[1])
                             \div fin.range[1]]
           index2 == [k \in 1..Len(fout.detpTo2) |->
                         ((fout.detpTo2[k][2] - fin.detcorner[2]) * patternsize[2])
                             \div fin.range[2]]
           logic  == [k \in 1..Len(fout.detpTo2) |->
                         /\ index1[k] >= 0 /\ index1[k] < patternsize[1]
                         /\ index2[k] >= 0 /\ index2[k] < patternsize[2]]
       IN  fout' = [fout EXCEPT
                       !.newdata   = Keep(fout.newdata, logic),
                       !.newindex1 = Keep(index1, logic),
                       !.newindex2 = Keep(index2, logic),
                       !.newseeds  = Keep(fout.newseeds, logic)]
    /\ pc' = "detp_index"
    /\ UNCHANGED <<fin, pipeline>>

\* line 78: replaydetidx = uint32(newindex2 * patternsize(2) + newindex1)
LinearIndex ==
    /\ pc = "detp_index"
    /\ fout' = [fout EXCEPT
                   !.replaydetidx = [k \in 1..Len(fout.newindex1) |->
                       fout.newindex2[k] * fin.patternsize[2] + fout.newindex1[k]]]
    /\ pc' = "detp_done"
    /\ UNCHANGED <<fin, pipeline>>

DetpNext == SelectPlane \/ PixelIndex \/ LinearIndex

SpecDetp == DetpInit /\ [][DetpNext]_vars

(***************************************************************************)
(* Properties                                                              *)
(***************************************************************************)
\* the record of voxel v, decoded from the bytes of a two-word-per-voxel volume
\* of n voxels: word 0 at index v, word 1 at index v + n
RecordOf(bytes, v, n) ==
    [lower    |-> bytes[4 * v],
     upper    |-> bytes[4 * v + 1],
     centroid |-> <<bytes[4 * v + 2], bytes[4 * v + 3], bytes[4 * (v + n)]>>,
     normal   |-> <<bytes[4 * (v + n) + 1], bytes[4 * (v + n) + 2], bytes[4 * (v + n) + 3]>>]

\* the bytes of a buffer of unsigned int cells
WordsToBytes(words) ==
    [b \in 0..(4 * Cardinality(DOMAIN words) - 1) |-> words[b \div 4][(b % 4) + 1]]

\* the label of a cell of the caller's volume
LabelOf(w) == WordVal(WordAnd(w, MED_MASK))

\* the record init_lower_label leaves for a voxel of label l
SeedRecord(l) == [lower |-> l, upper |-> 0, centroid |-> <<0, 0, 0>>, normal |-> <<0, 0, 0>>]

\* C1: when cfg->mediabyte is above 4 on entry, mcx_svmc_preprocess returns with
\* cfg->vol, cfg->mediabyte and cfg->srcpos as they were, without selecting a
\* device, allocating memory or calling mcx_maskdet
C1_NoOpGuard ==
    hist.orig.mediabyte > 4 =>
        /\ pc \in {"entry", "returned"}
        /\ cfg = hist.orig
        /\ host = InitHost
        /\ dev = InitDev
        /\ hist.live = {}
        /\ hist.maskdet = 0
        /\ hist.err = 0

C1_Witness ==
    /\ pc = "returned"
    /\ hist.orig.mediabyte = 5
    /\ cfg.volbuf = "caller"

\* C2: after a run with mediabyte <= 4 in which no GPU call fails, cfg->vol is a
\* newly allocated buffer of 2 * dim.x * dim.y * dim.z cells with word 0 of voxel
\* v at index v and word 1 at index v + n, cfg->mediabyte is MEDIA_2LABEL_SPLIT,
\* and each component of cfg->srcpos is 0.5 above its value on entry
C2_OutputContract ==
    (pc = "returned" /\ hist.orig.mediabyte <= 4) =>
        LET n == VolLength(hist.orig.dim)
        IN  /\ hist.err = 0
            /\ cfg.volbuf = "malloc"
            /\ DOMAIN cfg.vol = 0..(2 * n - 1)
            /\ \A v \in 0..(n - 1) :
                   /\ cfg.vol[v] = <<dev.gvol_new[4 * v], dev.gvol_new[4 * v + 1],
                                     dev.gvol_new[4 * v + 2], dev.gvol_new[4 * v + 3]>>
                   /\ cfg.vol[v + n] = <<dev.gvol_new[4 * (v + n)], dev.gvol_new[4 * (v + n) + 1],
                                         dev.gvol_new[4 * (v + n) + 2], dev.gvol_new[4 * (v + n) + 3]>>
                   /\ IF hist.crossed[v] = {}
                      THEN /\ cfg.vol[v] = <<LabelOf(hist.orig.vol[v]), 0, 0, 0>>
                           /\ cfg.vol[v + n] = ZeroWord
                      ELSE /\ cfg.vol[v][1] \in hist.crossed[v]
                           /\ cfg.vol[v + n] # ZeroWord
            /\ cfg.mediabyte = MEDIA_2LABEL_SPLIT
            /\ cfg.srcpos = <<hist.orig.srcpos[1] + 1, hist.orig.srcpos[2] + 1,
                              hist.orig.srcpos[3] + 1>>
            /\ cfg.dim = hist.orig.dim

C2_Witness ==
    /\ pc = "returned"
    /\ hist.orig.mediabyte = 4
    /\ hist.orig.srcpos = <<60, 61, 2>>
    /\ cfg.srcpos = <<61, 62, 3>>
    /\ \E v \in DOMAIN hist.crossed : hist.crossed[v] # {}

\* C3: a voxel at which no label's smoothed field crosses 0.5 on the cube keeps
\* the record init_lower_label gave it: its lower label is the label of the
\* caller's volume (vol & MED_MASK), its upper label and its centroid and normal
\* bytes are zero
C3_UncrossedKeepSeed ==
    pc # "init_lower_label" =>
        \A v \in 0..(vol_length - 1) :
            hist.crossed[v] = {} =>
                RecordOf(dev.gvol_new, v, vol_length) = SeedRecord(LabelOf(hist.orig.vol[v]))

C3_Witness ==
    /\ pc = "malloc_vol"
    /\ cfg.dim = <<2, 2, 3>>
    /\ cfg.vol[0][4] = 128
    /\ hist.crossed[7] # {}
    /\ hist.crossed[11] = {}
    /\ RecordOf(dev.gvol_new, 11, vol_length) = SeedRecord(2)

\* C4: once a label has written a boundary at a voxel, word 1 of the voxel is
\* non-zero, and no later step changes the voxel's lower label, centroid bytes
\* or normal bytes: a later label writes the upper-label byte only
C4_FirstWriterWins ==
    [][\A v \in 0..(vol_length - 1) :
           LET r == RecordOf(dev.gvol_new, v, vol_length)
               q == RecordOf(dev'.gvol_new, v, vol_length)
           IN  /\ hist'.crossed[v] # {} =>
                      <<q.centroid[3], q.normal[1], q.normal[2], q.normal[3]>> # <<0, 0, 0, 0>>
               /\ hist.crossed[v] # {} =>
                      /\ q.lower = r.lower
                      /\ q.centroid = r.centroid
                      /\ q.normal = r.normal
                      /\ q.upper # r.upper =>
                             host.label \in hist'.crossed[v] /\ q.upper = host.label]_vars

C4_Witness ==
    /\ pc = "create_binary_mask"
    /\ host.label = 2
    /\ \E v \in 0..(vol_length - 1) :
           /\ RecordOf(dev.gvol_new, v, vol_length).lower = 0
           /\ RecordOf(dev.gvol_new, v, vol_length).upper = 1

\* C5: whenever the upper-label byte of a voxel is set, an earlier, different
\* label has written the voxel's lower label and geometry: the upper label is
\* never set at a voxel where fewer than two labels crossed the cube
C5_LowerBeforeUpper ==
    pc # "init_lower_label" =>
        \A v \in 0..(vol_length - 1) :
            LET r == RecordOf(dev.gvol_new, v, vol_length)
            IN  r.upper # 0 =>
                    /\ Cardinality(hist.crossed[v]) >= 2
                    /\ r.lower \in hist.crossed[v]
                    /\ r.upper \in hist.crossed[v]
                    /\ r.lower < r.upper
                    /\ <<r.centroid[3], r.normal[1], r.normal[2], r.normal[3]>> # <<0, 0, 0, 0>>

C5_Witness ==
    /\ pc = "malloc_vol"
    /\ \E v \in 0..(vol_length - 1) :
           /\ hist.crossed[v] = {1, 2}
           /\ RecordOf(dev.gvol_new, v, vol_length).lower = 1
           /\ RecordOf(dev.gvol_new, v, vol_length).upper = 2

\* C6: in the record split_voxel writes, every normal byte is in 0..254 (255 is
\* never stored) and every centroid byte is in 0..255
C6_QuantizedRanges ==
    pc = "cube_done" =>
        LET r == RecordOf(fout, 7, 8)
        IN  \A k \in 1..3 : r.centroid[k] \in 0..255 /\ r.normal[k] \in 0..254

C6_Witness ==
    /\ pc = "cube_done"
    /\ \A n \in 0..7 : fin.scalar_field[n] # ONE \div 2
    /\ RecordOf(fout, 7, 8).lower = 1
    /\ \E k \in 1..3 : RecordOf(fout, 7, 8).normal[k] = 254

Clamp(v, lo, hi) == IF v < lo THEN lo ELSE IF v > hi THEN hi ELSE v

\* C7: after pad_replicate_volume, every cell (i,j,k) of the padded volume holds
\* vol[clamp(i-p), clamp(j-p), clamp(k-p)], for every pad width p >= 0
C7_ReplicatePadding ==
    pc = "pad_done" =>
        LET nd == PaddedDim(fin.dim, fin.pad_size)
        IN  /\ DOMAIN fout = 0..(VolLength(nd) - 1)
            /\ \A n \in DOMAIN fout :
                   LET c == Unflatten(n, nd)
                   IN  fout[n] = fin.vol[flatten_3d_to_1d(
                                     <<Clamp(c[1] - fin.pad_size, 0, fin.dim[1] - 1),
                                       Clamp(c[2] - fin.pad_size, 0, fin.dim[2] - 1),
                                       Clamp(c[3] - fin.pad_size, 0, fin.dim[3] - 1)>>, fin.dim)]

C7_Witness ==
    /\ pc = "pad_done"
    /\ fin.pad_size = 2
    /\ fin.dim = <<2, 2, 2>>
    /\ fout[0] = fin.vol[0]
    /\ fout[VolLength(PaddedDim(fin.dim, 2)) - 1] = fin.vol[7]

\* 1e-5 with 24 fractional bits
KernelTol == ONE \div 100000

\* the weights are numbers in [0, 1] that sum to 1 within 1e-5
Normalized(w, n) ==
    /\ \A i \in DOMAIN w : w[i] # NaN /\ w[i] >= 0 /\ w[i] <= ONE
    /\ Abs(SumTo(w, n) - ONE) <= KernelTol

PlanarHeights(c) ==
    {h \in 1..(c.dim[3] - 1) :
        \A n \in DOMAIN c.vol :
            LabelOf(c.vol[n]) = IF Unflatten(n, c.dim)[3] < h THEN 1 ELSE 2}

\* C9 as stated: on a volume of label 1 for z < h and label 2 for z >= h, every
\* voxel of the layer at the interface ends with both labels in its lower and
\* upper bytes and a normal whose x and y bytes are at the zero level
C9_EveryInterfaceVoxel ==
    (pc = "returned" /\ hist.orig.mediabyte <= 4) =>
        \A h \in PlanarHeights(hist.orig) :
            \A v \in 0..(VolLength(cfg.dim) - 1) :
                LET r == RecordOf(WordsToBytes(cfg.vol), v, VolLength(cfg.dim))
                IN  Unflatten(v, cfg.dim)[3] = h =>
                        /\ {r.lower, r.upper} = {1, 2}
                        /\ r.normal[1] = 127
                        /\ r.normal[2] = 127

\* C9, amended: the voxels (x, y, h) of the interface layer with x >= 1 and
\* y >= 1 end with lower label 1, upper label 2 and the normal bytes
\* (127, 127, 254); those with x = 0 or y = 0 are outside the grid of split_voxel
\* and keep the single label 2
C9_InteriorInterfaceVoxels ==
    (pc = "returned" /\ hist.orig.mediabyte <= 4) =>
        \A h \in PlanarHeights(hist.orig) :
            \A v \in 0..(VolLength(cfg.dim) - 1) :
                LET r == RecordOf(WordsToBytes(cfg.vol), v, VolLength(cfg.dim))
                    c == Unflatten(v, cfg.dim)
                IN  c[3] = h =>
                        IF c[1] >= 1 /\ c[2] >= 1
                        THEN r.lower = 1 /\ r.upper = 2 /\ r.normal = <<127, 127, 254>>
                        ELSE r = SeedRecord(2)

C9_Witness ==
    /\ pc = "returned"
    /\ hist.orig.mediabyte = 4
    /\ cfg.dim = <<3, 3, 4>>
    /\ PlanarHeights(hist.orig) = {2}
    /\ RecordOf(WordsToBytes(cfg.vol), 22, 36).normal = <<127, 127, 254>>
    /\ RecordOf(WordsToBytes(cfg.vol), 18, 36) = SeedRecord(2)

\* the orders in which the loop can take the labels 0..m-1
Orders(m) == {o \in [1..m -> 0..(m - 1)] : \A i, j \in 1..m : i # j => o[i] # o[j]}

\* the label of S that `order' takes first
FirstOf(order, S) ==
    order[CHOOSE i \in DOMAIN order :
              order[i] \in S /\ \A j \in 1..(i - 1) : order[j] \notin S]

\* at most one pair of labels meets at each voxel
OnePairPerVoxel == \A v \in DOMAIN hist.crossed : Cardinality(hist.crossed[v]) <= 2

\* gvol_new when the loop takes one label only, for each label
SingleLabelRuns == [l \in 0..(cfg.medianum - 1) |-> RunLabels(cfg.vol, cfg.dim, <<l>>)]

\* C10 as stated: on an input where at most one pair of labels meets at each
\* voxel, taking the labels in any other order gives every voxel the same
\* centroid and normal bytes and the same unordered pair of labels
C10_OrderIndependent ==
    (pc = "malloc_vol" /\ OnePairPerVoxel) =>
        \A order \in Orders(cfg.medianum) :
            \A run \in {RunLabels(cfg.vol, cfg.dim, order)} :
                \A v \in 0..(vol_length - 1) :
                    LET r == RecordOf(run, v, vol_length)
                        a == RecordOf(dev.gvol_new, v, vol_length)
                    IN  /\ {r.lower, r.upper} = {a.lower, a.upper}
                        /\ r.centroid = a.centroid
                        /\ r.normal = a.normal

\* C10, amended: on such an input, taking the labels in any other order gives
\* every voxel the same unordered pair of labels; where two labels meet, the
\* lower label is the one of the pair that the order takes first, and the
\* centroid and normal bytes are those computed from that label's field alone
C10_OrderKeepsPair ==
    (pc = "malloc_vol" /\ OnePairPerVoxel) =>
        \A single \in {SingleLabelRuns} :
            single # <<>> =>
            \A order \in Orders(cfg.medianum) :
                \A run \in {RunLabels(cfg.vol, cfg.dim, order)} :
                    \A v \in 0..(vol_length - 1) :
                        LET r == RecordOf(run, v, vol_length)
                            a == RecordOf(dev.gvol_new, v, vol_length)
                        IN  IF Cardinality(hist.crossed[v]) < 2 THEN r = a
                            ELSE /\ {r.lower, r.upper} = hist.crossed[v]
                                 /\ {a.lower, a.upper} = hist.crossed[v]
                                 /\ r.lower = FirstOf(order, hist.crossed[v])
                                 /\ r.centroid = RecordOf(single[r.lower], v, vol_length).centroid
                                 /\ r.normal = RecordOf(single[r.lower], v, vol_length).normal

C10_Witness ==
    /\ pc = "malloc_vol"
    /\ OnePairPerVoxel
    /\ cfg.dim = <<2, 2, 3>>
    /\ hist.crossed[7] = {1, 2}
    /\ RecordOf(dev.gvol_new, 7, vol_length).normal = <<127, 127, 254>>
    /\ RecordOf(RunLabels(cfg.vol, cfg.dim, <<2, 1, 0>>), 7, vol_length).normal = <<127, 127, 0>>

\* the launch the host makes in position i (from 1) of the label loop
LaunchAt(i) ==
    IF i = 1 THEN <<"init_lower_label", 0>>
    ELSE <<(<<"create_binary_mask", "gaussian_blur", "split_voxel">>)[((i - 2) % 3) + 1],
           (i - 2) \div 3>>

\* the last launch the host made
LastLaunch == fout.launches[Len(fout.launches)]


\* C11: a device-wide synchronization follows the seeding pass and each of the
\* mask, smoothing and extraction launches of every label: the host makes a
\* launch only when the device holds no unit, every unit the device holds
\* belongs to the last launch, and while units of the smoothing (extraction)
\* launch are held the mask (smoothed field) of that label is complete
C11_StageBarriers ==
    /\ \A i \in 1..Len(fout.launches) : fout.launches[i] = LaunchAt(i)
    /\ pc \in {"init_lower_label", "create_binary_mask",
               "gaussian_blur", "split_voxel", "malloc_vol"}
           => fout.pending = {}
    /\ \A p \in fout.pending :
           /\ <<p[1], p[2]>> = LastLaunch
           /\ p[1] = "gaussian_blur"
                  => dev.gbinary_mask = UnitEffect(dev, "create_binary_mask", p[2], cfg.dim, 0, 0,
                                                   vol_padded_length).gbinary_mask
           /\ p[1] = "split_voxel"
                  => dev.gmask = UnitEffect(dev, "gaussian_blur", p[2], cfg.dim, 0, 0, vol_length).gmask

C11_Witness ==
    /\ pc = "sync_split_voxel"
    /\ host.label = 1
    /\ Len(fout.launches) = 7
    /\ fout.done # {}
    /\ fout.pending # {}

\* the split_voxel launches made so far, in order
SplitLaunches == SelectSeq(fout.launches, LAMBDA l : l[1] = "split_voxel")

\* C12: the host takes the labels in the order 0, 1, ..., medianum-1: units of
\* split_voxel are held by the device only together with units of the same
\* launch, for the label the host is at; when the units of label L are handed
\* over, gvol_new holds the complete result of the labels 0..L-1 and of no
\* other label; and the loop is left after medianum split_voxel launches
C12_SequentialLabels ==
    /\ \A i \in 1..Len(SplitLaunches) : SplitLaunches[i][2] = i - 1
    /\ host.label <= cfg.medianum
    /\ pc = "malloc_vol" => Len(SplitLaunches) = cfg.medianum /\ fout.pending = {}
    /\ \A p \in fout.pending :
           p[1] = "split_voxel"
               => /\ p[2] = host.label
                  /\ \A q \in fout.pending : q[1] = p[1] /\ q[2] = p[2]
    /\ (pc = "sync_split_voxel" /\ fout.done = {})
           => dev.gvol_new = RunLabels(cfg.vol, cfg.dim, [i \in 1..host.label |-> i - 1])

C12_Witness ==
    /\ pc = "sync_split_voxel"
    /\ host.label = 1
    /\ fout.done = {}
    /\ \E v \in DOMAIN hist.crossed : hist.crossed[v] = {0}

\* the line of each call of mcx_svmc_preprocess made inside CUDA_ASSERT, by the
\* program location of the call
CallSite ==
    [set_device |-> 563, malloc_gvol_padded |-> 578, upload_padded |-> 579,
     upload_filter |-> 584, malloc_gbinary_mask |-> 593, malloc_gmask |-> 594,
     malloc_gvol |-> 595, malloc_gvol_new |-> 596, copy_vol |-> 599, memset |-> 602,
     download |-> 638, free_gvol_padded |-> 663, free_gbinary_mask |-> 667,
     free_gmask |-> 671, free_gvol |-> 675, free_gvol_new |-> 679]

\* C13: each cudaSetDevice, cudaMalloc, cudaMemcpy, cudaMemcpyToSymbol,
\* cudaMemset and cudaFree call of mcx_svmc_preprocess can fail, and its
\* failure hands the fatal handler the line of that call and changes nothing
\* else; the handler is entered from no other place, the recorded line changes
\* in no other step, and nothing is executed once the handler was entered
C13_FatalFailures ==
    [][/\ pc # "fatal"
       /\ pc \in DOMAIN CallSite => ENABLED (Fatal(CallSite[pc]))
       /\ pc' = "fatal" => /\ pc \in DOMAIN CallSite
                           /\ hist' = [hist EXCEPT !.err = CallSite[pc]]
                           /\ UNCHANGED <<cfg, host, dev, fin, fout>>
       /\ hist'.err # hist.err => pc' = "fatal"]_vars

C13_Witness ==
    /\ pc = "fatal"
    /\ hist.err = 638
    /\ hist.live = {"vol_padded", "filter", "gvol_padded", "gbinary_mask", "gmask", "gvol",
                    "gvol_new"}

\* C14: when control has left mcx_svmc_preprocess, by its return or by a failed
\* call handed to the fatal handler, no device buffer and no host transient
\* allocated by the run is still allocated
C14_ReleasedOnEveryExit ==
    pc \in {"returned", "fatal"} => hist.live = {}

\* C15: split_voxel never divides by a zero area: in a unit that writes
\* geometry, no component of the isosurface centroid or normal that is
\* converted to a byte of the record is NaN
C15_ZeroAreaGuard ==
    pc = "cube_done" =>
        LET cube_values == CubeValues(fin.scalar_field, <<0, 0, 0>>, CubeDim)
            cube_index  == CubeIndex(cube_values)
            iso         == Isosurface(cube_values, cube_index)
        IN  cube_index \notin {0, 255}
                => \A k \in 1..3 : iso.centroid[k] # NaN /\ iso.normal[k] # NaN

\* the cells of the buffer it writes that a unit of a kernel can write
UnitWrites(kernel, unit) ==
    LET idx1d == IF kernel = "split_voxel"
                 THEN flatten_3d_to_1d(VAdd(Unflatten(unit, SplitGrid(cfg.dim)), <<1, 1, 1>>),
                                       cfg.dim)
                 ELSE unit
    IN  CASE kernel = "init_lower_label" -> {idx1d * 4}
          [] kernel = "split_voxel" ->
                 {idx1d * 4 + b : b \in 0..3} \cup {(idx1d + vol_length) * 4 + b : b \in 0..3}
          [] OTHER -> {idx1d}

\* the cells of the buffer it writes that a unit of a kernel reads
UnitReads(kernel, unit) ==
    IF kernel = "split_voxel"
    THEN {(flatten_3d_to_1d(VAdd(Unflatten(unit, SplitGrid(cfg.dim)), <<1, 1, 1>>), cfg.dim)
               + vol_length) * 4 + b : b \in 0..3}
    ELSE {}

\* C16: in every launch no unit writes a cell that another unit of the launch
\* reads or writes, and the buffers do not depend on the order in which the
\* device runs the units: at every moment the buffer the kernel writes holds,
\* in the cells of the units already run, what running all units in index
\* order leaves there, and in every other cell what it held at the launch
C16_IntraStageIndependence ==
    fout.launches # <<>> =>
        LET kernel == LastLaunch[1]
            target == dev[KernelTarget(kernel)]
            units  == fout.done \cup fout.pending
        IN  /\ fout.done = {} =>
                   \A p \in units : \A q \in units \ {p} :
                       UnitWrites(p[1], p[3]) \cap
                           (UnitWrites(q[1], q[3]) \cup UnitReads(q[1], q[3])) = {}
            /\ DOMAIN target = DOMAIN fout.after
            /\ \A x \in DOMAIN target :
                   target[x] = IF \E p \in fout.done : x \in UnitWrites(p[1], p[3])
                               THEN fout.after[x]
                               ELSE fout.before[x]
            /\ fout.pending = {} => target = fout.after

C16_Witness ==
    /\ pc = "sync_split_voxel"
    /\ fout.done = {<<"split_voxel", 1, 1>>}
    /\ fout.pending = {<<"split_voxel", 1, 0>>}
    /\ dev.gvol_new # fout.after

\* the voxels of the volume with every index in 1..dim-1-margin
InnerVoxels(margin) ==
    {v \in 0..(VolLength(cfg.dim) - 1) :
        \A k \in 1..3 : Unflatten(v, cfg.dim)[k] \in 1..(cfg.dim[k] - 1 - margin)}

\* the voxels of V hold their seeded record when mcx_svmc_preprocess has returned
KeepSeed(V) ==
    (pc = "returned" /\ hist.orig.mediabyte <= 4) =>
        \A v \in V : RecordOf(WordsToBytes(cfg.vol), v, VolLength(cfg.dim))
                         = SeedRecord(LabelOf(hist.orig.vol[v]))

\* C17, as stated: split_voxel processes only the voxels whose index lies in
\* 1..dim-2 along each axis; every voxel on the outer boundary of the volume
\* keeps its seeded record
C17_InteriorOnly ==
    /\ \A v \in DOMAIN hist.crossed : hist.crossed[v] # {} => v \in InnerVoxels(1)
    /\ KeepSeed((0..(VolLength(cfg.dim) - 1)) \ InnerVoxels(1))

\* C17, amended: split_voxel processes only the voxels whose index lies in
\* 1..dim-1 along each axis; every voxel with an index 0 keeps its seeded
\* record, and the voxels with an index dim-1 can be written
C17_ExtractionGrid ==
    /\ \A v \in DOMAIN hist.crossed : hist.crossed[v] # {} => v \in InnerVoxels(0)
    /\ KeepSeed((0..(VolLength(cfg.dim) - 1)) \ InnerVoxels(0))

C17_Witness ==
    /\ pc = "returned"
    /\ hist.orig.mediabyte = 4
    /\ cfg.dim = <<3, 3, 4>>
    /\ hist.crossed[26] # {}
    /\ RecordOf(WordsToBytes(cfg.vol), 26, 36) # SeedRecord(LabelOf(hist.orig.vol[26]))
    /\ hist.crossed[22] # {}

\* the value of the field of the cube unit at corner i of the cube
CornerValue(i) == fin.scalar_field[flatten_3d_to_1d(cube_vertices_local[i + 1], CubeDim)]

\* the corners of the cube whose value is strictly below 0.5
CornersBelow == {i \in 0..7 : 2 * CornerValue(i) < ONE}

\* C18: bit i of cube_index is set exactly when the value at corner i is
\* strictly below 0.5 (a value of exactly 0.5 is not below), and split_voxel
\* leaves the volume as it was exactly when cube_index is 0 or 255, that is
\* when all corners or no corner are below
C18_CubeClassification ==
    pc = "cube_done" =>
        LET cube_index == CubeIndex(CubeValues(fin.scalar_field, <<0, 0, 0>>, CubeDim))
        IN  /\ \A i \in 0..7 : ((cube_index \div (2^i)) % 2 = 1) <=> (i \in CornersBelow)
            /\ (cube_index \in {0, 255}) <=> (CornersBelow \in {{}, 0..7})
            /\ (fout = [b \in 0..63 |-> 0]) <=> (cube_index \in {0, 255})

C18_Witness ==
    /\ pc = "cube_done"
    /\ CornerValue(0) = ONE \div 2
    /\ \A i \in 1..7 : CornerValue(i) = 7 * (ONE \div 8)
    /\ fout = [b \in 0..63 |-> 0]

\* bit i of the number c
Bit(c, i) == (c \div (2^i)) % 2

\* the cube_index of the cube unit
UnitCubeIndex == CubeIndex(CubeValues(fin.scalar_field, <<0, 0, 0>>, CubeDim))

\* C19: for the cube_index c of every cube, bit j of edge_intersections[c] is
\* set exactly when the two end corners of edge j (edge_vertices[j]) are
\* classified differently by c, so split_voxel computes a vertex on exactly the
\* edges that straddle the isovalue; and edge_intersections[c] equals
\* edge_intersections[255 - c]
C19_EdgeTableConsistent ==
    LET c == UnitCubeIndex
    IN  /\ \A j \in 0..11 :
               /\ (Bit(edge_intersections[c + 1], j) = 1)
                      <=> (Bit(c, edge_vertices[j + 1][1]) # Bit(c, edge_vertices[j + 1][2]))
               /\ (IsosurfaceVertices(CubeValues(fin.scalar_field, <<0, 0, 0>>, CubeDim), c)[j]
                       # NaN3)
                      <=> ((edge_vertices[j + 1][1] \in CornersBelow)
                               # (edge_vertices[j + 1][2] \in CornersBelow))
        /\ edge_intersections[c + 1] = edge_intersections[(255 - c) + 1]
        /\ edge_intersections[c + 1] \in 0..4095

C19_Witness ==
    /\ pc = "cube_done"
    /\ UnitCubeIndex = 37
    /\ edge_intersections[UnitCubeIndex + 1] # 0
    /\ fout[28] = 1

\* the row of triangle_vertices for the cube unit
UnitRow == triangle_vertices[UnitCubeIndex + 1]

\* the column of the first -1 of a row of 16 entries (16 when there is none)
Sentinel(row) ==
    IF \E i \in 0..15 : row[i + 1] = -1
    THEN CHOOSE i \in 0..15 : row[i + 1] = -1 /\ \A k \in 0..(i - 1) : row[k + 1] # -1
    ELSE 16

\* C20: the row of triangle_vertices of every cube_index c has 16 entries: 3t
\* edge indices in 0..11 (t <= 5) followed by -1 from column 3t <= 15 on; every
\* edge listed has its bit set in edge_intersections[c], so the triangle loop
\* ends inside the row and reads only vertices that were computed; the rows of
\* 0 and 255 list no triangle and every other row lists at least one
C20_TriangleTableWellFormed ==
    LET c    == UnitCubeIndex
        n    == Sentinel(UnitRow)
        vert == IsosurfaceVertices(CubeValues(fin.scalar_field, <<0, 0, 0>>, CubeDim), c)
    IN  /\ DOMAIN UnitRow = 1..16
        /\ n \in {0, 3, 6, 9, 12, 15}
        /\ \A i \in 0..15 : IF i < n THEN UnitRow[i + 1] \in 0..11 ELSE UnitRow[i + 1] = -1
        /\ \A i \in 0..(n - 1) :
               /\ Bit(edge_intersections[c + 1], UnitRow[i + 1]) = 1
               /\ vert[UnitRow[i + 1]] # NaN3
        /\ (n = 0) <=> (c \in {0, 255})

C20_Witness ==
    /\ pc = "cube_done"
    /\ Sentinel(UnitRow) = 15
    /\ fout[28] = 1

\* the isosurface of the cube unit
UnitIsosurface ==
    Isosurface(CubeValues(fin.scalar_field, <<0, 0, 0>>, CubeDim), UnitCubeIndex)

\* the cube unit wrote geometry, and iso, computed without a NaN, is its isosurface
UnitWroteGeometry(iso) ==
    /\ pc = "cube_done"
    /\ UnitCubeIndex \notin {0, 255}
    /\ iso = UnitIsosurface
    /\ \A k \in 1..3 : iso.normal[k] # NaN /\ iso.centroid[k] # NaN

\* (n + 1) * 255 / 2 in units of 1/4096, rounded down, for a normal component n
HalfLevels(n) == ((n + ONE) \div 8192) * 255 + (((n + ONE) % 8192) * 255) \div 8192

\* C21, as stated: the normal byte is round(clamp((n+1)/2, 0, 0.996) * 255),
\* capped at 254
C21_RoundQuantization ==
    pc = "cube_done" =>
        \A iso \in {UnitIsosurface} :
            UnitWroteGeometry(iso) =>
                \A k \in 1..3 :
                    LET n == iso.normal[k]
                    IN  (-ONE <= n /\ n <= ONE) =>
                            RecordOf(fout, 7, 8).normal[k]
                                = Min((HalfLevels(n) + 2048) \div 4096, 254)

\* C21, amended: the normal byte b is the integer part of (n+1) * 255 / 2,
\* capped at 254: b <= (n+1) * 127.5 < b + 1 when b < 254, and
\* (n+1) * 127.5 >= 254 when b = 254
C21_FloorQuantization ==
    pc = "cube_done" =>
        \A iso \in {UnitIsosurface} :
            UnitWroteGeometry(iso) =>
                \A k \in 1..3 :
                    LET n == iso.normal[k]
                        b == RecordOf(fout, 7, 8).normal[k]
                    IN  (-ONE <= n /\ n <= ONE) =>
                            /\ b \in 0..254
                            /\ b * 4096 <= HalfLevels(n)
                            /\ b < 254 => HalfLevels(n) < (b + 1) * 4096

C21_Witness ==
    /\ UnitWroteGeometry(UnitIsosurface)
    /\ UnitIsosurface.normal[1] = 0
    /\ RecordOf(fout, 7, 8).normal[1] = 127
    /\ \E k \in 1..3 : RecordOf(fout, 7, 8).normal[k] \notin {0, 127, 254}

\* the labels of the caller's volume at the corners of the cube of voxel v
\* (corner i at position i + 1)
CornerLabels(v) ==
    [i \in 1..8 |->
        LabelOf(hist.orig.vol[flatten_3d_to_1d(
            VAdd(VSub(Unflatten(v, cfg.dim), <<1, 1, 1>>), cube_vertices_local[i]), cfg.dim)])]

\* component k of (mean position of the corners labelled b) - (mean position of
\* the corners labelled a), times the numbers of both kinds of corners
TowardLabel(v, a, b, k) ==
    LET L  == CornerLabels(v)
        na == Cardinality({i \in 1..8 : L[i] = a})
        sb == Cardinality({i \in 1..8 : L[i] = b /\ cube_vertices_local[i][k] = 1})
        sa == Cardinality({i \in 1..8 : L[i] = a /\ cube_vertices_local[i][k] = 1})
    IN  na * sb - (8 - na) * sa

\* the stored normal of record r, as signed levels around the zero level 127,
\* times the direction from the corners labelled a to the corners labelled b
NormalToward(r, v, a, b) ==
    (r.normal[1] - 127) * TowardLabel(v, a, b, 1)
        + (r.normal[2] - 127) * TowardLabel(v, a, b, 2)
        + (r.normal[3] - 127) * TowardLabel(v, a, b, 3)

\* the voxels whose cube holds exactly the two labels that crossed there
TwoLabelVoxels ==
    {v \in InnerVoxels(0) :
        /\ Cardinality(hist.crossed[v]) = 2
        /\ {CornerLabels(v)[i] : i \in 1..8} = hist.crossed[v]}

\* C22, as stated: at a voxel where exactly two labels meet, the stored normal
\* points from the region of the upper label toward the region of the lower
\* label
C22_NormalTowardLower ==
    pc = "malloc_vol" =>
        \A v \in TwoLabelVoxels :
            LET r == RecordOf(dev.gvol_new, v, vol_length)
            IN  (\E k \in 1..3 : TowardLabel(v, r.lower, r.upper, k) # 0)
                    => NormalToward(r, v, r.upper, r.lower) > 0

\* C22, amended: at a voxel where exactly two labels meet and whose cube does
\* not hold them symmetrically, the stored normal points from the region of
\* the lower (first processed) label toward the region of the upper label
C22_NormalTowardUpper ==
    pc = "malloc_vol" =>
        \A v \in TwoLabelVoxels :
            LET r == RecordOf(dev.gvol_new, v, vol_length)
            IN  (\E k \in 1..3 : TowardLabel(v, r.lower, r.upper, k) # 0)
                    => NormalToward(r, v, r.lower, r.upper) > 0

C22_Witness ==
    /\ pc = "malloc_vol"
    /\ cfg.dim = CubeDim
    /\ 7 \in TwoLabelVoxels
    /\ RecordOf(dev.gvol_new, 7, 8).lower = 0
    /\ RecordOf(dev.gvol_new, 7, 8).upper = 1
    /\ TowardLabel(7, 0, 1, 3) = 16
    /\ RecordOf(dev.gvol_new, 7, 8).normal = <<127, 127, 254>>

\* C23: at the moment a checked GPU call reports failure, either cfg->vol,
\* cfg->mediabyte and cfg->srcpos all hold the values they had on entry, or
\* all three hold their final values (new volume, MEDIA_2LABEL_SPLIT, source
\* position shifted by 0.5 on every axis)
C23_NoHalfUpdatedConfig ==
    pc = "fatal" =>
        \/ /\ cfg.volbuf = "caller"
           /\ cfg.vol = hist.orig.vol
           /\ cfg.mediabyte = hist.orig.mediabyte
           /\ cfg.srcpos = hist.orig.srcpos
        \/ /\ cfg.volbuf = "malloc"
           /\ cfg.vol = BytesToWords(dev.gvol_new, 2 * vol_length)
           /\ cfg.mediabyte = MEDIA_2LABEL_SPLIT
           /\ cfg.srcpos = [k \in 1..3 |-> hist.orig.srcpos[k] + 1]

\* binary_mask_padded[c] for the label being processed: 1 iff the padded
\* volume holds that label at the padded coordinates c
BinaryMaskPadded(c) ==
    IF LabelOf(dev.gvol_padded[flatten_3d_to_1d(c, PaddedDim(cfg.dim, 1))]) = host.label
    THEN 1 ELSE 0

\* sum over i, j, k in 0..2 of binary_mask_padded[x+i, y+j, z+k] * gfilter[2-i, 2-j, 2-k]
Convolution(c) ==
    SumTo([n \in 0..26 |->
              LET i == n \div 9
                  j == (n \div 3) % 3
                  k == n % 3
              IN  BinaryMaskPadded(<<c[1] + i, c[2] + j, c[3] + k>>)
                      * dev.gfilter[(2 - i) + 3 * (2 - j) + 9 * (2 - k)]], 27)

\* C24: after the smoothing stage of a label, the smoothed field holds exactly
\* one value per real voxel and none for the padding cells, and the value at
\* (x, y, z) is the convolution of the label's padded binary mask with the
\* reversed 3x3x3 kernel
C24_TrueConvolution ==
    pc = "split_voxel" =>
        /\ DOMAIN dev.gmask = 0..(vol_length - 1)
        /\ \A v \in 0..(vol_length - 1) : dev.gmask[v] = Convolution(Unflatten(v, cfg.dim))

C24_Witness ==
    /\ pc = "split_voxel"
    /\ host.label = 2
    /\ cfg.dim = <<3, 3, 4>>
    /\ dev.gmask[0] = 0
    /\ dev.gmask[35] = Convolution(<<2, 2, 3>>)
    /\ dev.gmask[35] > ONE \div 2
    /\ dev.gmask[35] < ONE

\* the transient buffers of a run: the two host buffers and the five device
\* buffers
TransientBuffers ==
    {"vol_padded", "filter", "gvol_padded", "gbinary_mask", "gmask", "gvol", "gvol_new"}

\* C25: mcx_maskdet is called exactly once in a run that returns after
\* preprocessing and never in a run that returns at the mediabyte guard; when
\* it is called every label has been processed, cfg->vol is the downloaded
\* volume, cfg->mediabyte and cfg->srcpos are updated, and no transient host or
\* device buffer has been released yet
C25_MaskDetOnce ==
    /\ [](pc = "returned" => hist.maskdet = IF hist.orig.mediabyte > 4 THEN 0 ELSE 1)
    /\ [][hist'.maskdet # hist.maskdet =>
            /\ hist.maskdet = 0
            /\ hist'.maskdet = 1
            /\ hist.orig.mediabyte <= 4
            /\ host.label = cfg.medianum
            /\ \A v \in 0..(vol_length - 1) : hist.crossed[v] \subseteq 0..(cfg.medianum - 1)
            /\ cfg.volbuf = "malloc"
            /\ cfg.vol = BytesToWords(dev.gvol_new, 2 * vol_length)
            /\ cfg.mediabyte = MEDIA_2LABEL_SPLIT
            /\ cfg.srcpos = [k \in 1..3 |-> hist.orig.srcpos[k] + 1]
            /\ hist.live = TransientBuffers]_vars

C25_Witness ==
    /\ pc = "returned"
    /\ hist.orig.mediabyte = 4
    /\ hist.maskdet = 1
    /\ hist.live = {}
    /\ cfg.mediabyte = MEDIA_2LABEL_SPLIT

\* the edges of the cube unit on which split_voxel computes a vertex
FlaggedEdges == {i \in 0..11 : Bit(edge_intersections[UnitCubeIndex + 1], i) = 1}

\* the vertex of every flagged edge is computed by the interpolating branch
\* with a parameter in [0,1], and lies in the unit cube
VerticesOnEdges ==
    \A i \in FlaggedEdges :
        LET a_val == CornerValue(edge_vertices[i + 1][1])
            b_val == CornerValue(edge_vertices[i + 1][2])
            num   == MCX_SVMC_ISOVALUE - b_val
            den   == a_val - b_val
            p     == IsosurfaceVertices(CubeValues(fin.scalar_field, <<0, 0, 0>>, CubeDim),
                                        UnitCubeIndex)[i]
        IN  /\ a_val # b_val
            /\ \/ den > 0 /\ 0 <= num /\ num <= den
               \/ den < 0 /\ den <= num /\ num <= 0
            /\ \A k \in 1..3 : p[k] # NaN /\ 0 <= p[k] /\ p[k] <= GONE

\* C26: in a unit that writes geometry, every flagged edge has endpoint values
\* that differ and an interpolation parameter in [0,1], every vertex and the
\* area-weighted centroid lie in the unit cube, and each centroid byte is the
\* integer part of centroid * 255, a value in 0..255 (no wrap-around)
C26_VerticesStayOnEdge ==
    (pc = "cube_done" /\ UnitCubeIndex \notin {0, 255}) =>
        \A iso \in {UnitIsosurface} :
            /\ VerticesOnEdges
            /\ \A k \in 1..3 :
                   /\ iso.centroid[k] # NaN
                   /\ 0 <= iso.centroid[k] /\ iso.centroid[k] <= GONE
                   /\ RecordOf(fout, 7, 8).centroid[k] = (iso.centroid[k] * 255) \div GONE

\* the six geometry bytes split_voxel computes at voxel v from scalar_field
GeometryFrom(scalar_field, v) ==
    LET cube_values == CubeValues(scalar_field, VSub(Unflatten(v, cfg.dim), <<1, 1, 1>>), cfg.dim)
        iso         == Isosurface(cube_values, CubeIndex(cube_values))
    IN  [centroid |-> [k \in 1..3 |-> CentroidByte(iso.centroid[k], 0)],
         normal   |-> [k \in 1..3 |-> NormalByte(iso.normal[k], 0)]]

\* the voxels at which l is the smallest label that crossed
FirstCrossedBy(l) ==
    {v \in 0..(vol_length - 1) : l \in hist.crossed[v] /\ \A m \in hist.crossed[v] : l <= m}

\* C27: when the label loop has ended (labels taken in ascending order), a
\* voxel that no label crossed holds its original label, upper label 0 and
\* zero geometry; a voxel that exactly one label crossed holds that label as
\* lower label and upper label 0; a voxel that two or more labels crossed
\* holds the smallest of them as lower and the largest as upper label; the
\* geometry of a crossed voxel is computed from the smoothed field of the
\* smallest label that crossed; so a non-zero upper label is above the lower
\* label
C27_FinalLabelSlots ==
    pc = "malloc_vol" =>
        /\ \A v \in 0..(vol_length - 1) :
               LET r == RecordOf(dev.gvol_new, v, vol_length)
                   X == hist.crossed[v]
               IN  /\ X = {} => r = SeedRecord(LabelOf(hist.orig.vol[v]))
                   /\ Cardinality(X) = 1 => {r.lower} = X /\ r.upper = 0
                   /\ Cardinality(X) >= 2 =>
                          /\ r.lower \in X /\ \A m \in X : r.lower <= m
                          /\ r.upper \in X /\ \A m \in X : m <= r.upper
                   /\ r.upper # 0 => r.lower < r.upper
        /\ \A l \in 0..(cfg.medianum - 1) :
               FirstCrossedBy(l) # {} =>
                   \A f \in {SmoothedField(dev.gvol_padded, dev.gfilter, cfg.dim, l)} :
                       \A v \in FirstCrossedBy(l) :
                           LET r == RecordOf(dev.gvol_new, v, vol_length)
                           IN  /\ r.centroid = GeometryFrom(f, v).centroid
                               /\ r.normal = GeometryFrom(f, v).normal

C27_Witness ==
    /\ pc = "malloc_vol"
    /\ cfg.medianum = 3
    /\ \E v \in 0..(vol_length - 1) :
           /\ hist.crossed[v] = {0, 1, 2}
           /\ RecordOf(dev.gvol_new, v, vol_length).lower = 0
           /\ RecordOf(dev.gvol_new, v, vol_length).upper = 2

\* the cells <<buffer, index>> that the unit blockIdx of a kernel launched on
\* gridDim reads or writes (gvol_new is indexed in bytes, the others in cells)
Accesses(kernel, blockIdx, gridDim) ==
    CASE kernel = "init_lower_label" ->
             {<<"gvol", flatten_3d_to_1d(blockIdx, gridDim)>>,
              <<"gvol_new", flatten_3d_to_1d(blockIdx, gridDim) * 4>>}
      [] kernel = "create_binary_mask" ->
             {<<"gvol_padded", flatten_3d_to_1d(blockIdx, gridDim)>>,
              <<"gbinary_mask", flatten_3d_to_1d(blockIdx, gridDim)>>}
      [] kernel = "gaussian_blur" ->
             {<<"gmask", flatten_3d_to_1d(blockIdx, gridDim)>>}
                 \cup {<<"gbinary_mask",
                         flatten_3d_to_1d(VAdd(blockIdx, KernelOffsets[n]),
                                          PaddedDim(gridDim, MCX_SVMC_GKERNEL_SIZE \div 2))>> :
                          n \in DOMAIN KernelOffsets}
                 \cup {<<"gfilter",
                         flatten_3d_to_1d(
                             <<MCX_SVMC_GKERNEL_SIZE - 1 - KernelOffsets[n][1],
                               MCX_SVMC_GKERNEL_SIZE - 1 - KernelOffsets[n][2],
                               MCX_SVMC_GKERNEL_SIZE - 1 - KernelOffsets[n][3]>>,
                             <<MCX_SVMC_GKERNEL_SIZE, MCX_SVMC_GKERNEL_SIZE,
                               MCX_SVMC_GKERNEL_SIZE>>)>> : n \in DOMAIN KernelOffsets}
      [] kernel = "split_voxel" ->
             LET vol_dim == VAdd(gridDim, <<1, 1, 1>>)
                 idx1d   == flatten_3d_to_1d(VAdd(blockIdx, <<1, 1, 1>>), vol_dim)
             IN  {<<"gmask", flatten_3d_to_1d(VAdd(blockIdx, cube_vertices_local[i]), vol_dim)>> :
                      i \in 1..8}
                     \cup {<<"gvol_new", idx1d * 4 + b>> : b \in 0..3}
                     \cup {<<"gvol_new", (idx1d + VolLength(vol_dim)) * 4 + b>> : b \in 0..3}

\* the kernel launched from each program location of the pipeline
KernelAt ==
    [init_lower_label |-> "init_lower_label", create_binary_mask |-> "create_binary_mask",
     gaussian_blur |-> "gaussian_blur", split_voxel |-> "split_voxel"]

\* C28: when a kernel is about to be launched (every extent of the volume being
\* 2 or more), every cell that any of its units reads or writes lies inside the
\* buffer it names: the padded mask within (dimx+2)(dimy+2)(dimz+2), the filter
\* within 27, the field within dimx*dimy*dimz, and the bytes of gvol_new within
\* the two words v and v + n of a voxel v < n
C28_IndexSafety ==
    pc \in DOMAIN KernelAt =>
        LET kernel  == KernelAt[pc]
            gridDim == KernelGrid(kernel, cfg.dim)
        IN  /\ \A k \in 1..3 : cfg.dim[k] >= 2 /\ gridDim[k] >= 1
            /\ DOMAIN dev.gbinary_mask = 0..(vol_padded_length - 1)
            /\ DOMAIN dev.gfilter = 0..26
            /\ DOMAIN dev.gmask = 0..(vol_length - 1)
            /\ DOMAIN dev.gvol_new = 0..(8 * vol_length - 1)
            /\ \A unit \in 0..(VolLength(gridDim) - 1) :
                   \A a \in Accesses(kernel, Unflatten(unit, gridDim), gridDim) :
                       a[2] \in DOMAIN dev[a[1]]

C28_Witness ==
    /\ pc = "split_voxel"
    /\ cfg.dim = <<3, 3, 4>>
    /\ host.label = 2
    /\ <<"gmask", 35>> \in Accesses("split_voxel", <<1, 1, 2>>, <<2, 2, 3>>)
    /\ <<"gvol_new", 287>> \in Accesses("split_voxel", <<1, 1, 2>>, <<2, 2, 3>>)
    /\ DOMAIN dev.gvol_new = 0..287

\* every voxel of the caller's volume carries the same label
Homogeneous == \A v \in 0..(vol_length - 1) : LabelOf(hist.orig.vol[v]) = LabelOf(hist.orig.vol[0])

\* C29: for a volume whose voxels all carry one label L < medianum, every
\* smoothed value is the sum of all 27 weights (at least 0.5) when L is the
\* label being processed and 0 for any other label, no label crosses any
\* voxel, and every record is (L, 0) with zero geometry
C29_HomogeneousVolume ==
    (Homogeneous /\ LabelOf(hist.orig.vol[0]) < cfg.medianum) =>
        /\ pc = "split_voxel" =>
               /\ 2 * SumTo(dev.gfilter, 27) >= ONE
               /\ \A v \in 0..(vol_length - 1) :
                      dev.gmask[v] = IF host.label = LabelOf(hist.orig.vol[0])
                                     THEN SumTo(dev.gfilter, 27) ELSE 0
        /\ \A v \in 0..(vol_length - 1) : hist.crossed[v] = {}
        /\ pc # "init_lower_label" =>
               \A v \in 0..(vol_length - 1) :
                   RecordOf(dev.gvol_new, v, vol_length) = SeedRecord(LabelOf(hist.orig.vol[0]))

C29_Witness ==
    /\ pc = "malloc_vol"
    /\ Homogeneous
    /\ cfg.medianum = 3
    /\ LabelOf(hist.orig.vol[0]) = 2
    /\ hist.orig.vol[0][4] = 128
    /\ \A v \in 0..(vol_length - 1) :
           RecordOf(dev.gvol_new, v, vol_length) = SeedRecord(2)

\* the photons mcxdetpidx retains: those on the detector plane whose pixel
\* lies inside the pattern
Retained ==
    SelectSeq([i \in 1..Len(fin.p) |-> i],
              LAMBDA i : /\ fin.p[i].on
                         /\ 0 <= fin.p[i].x /\ fin.p[i].x < 12
                         /\ 0 <= fin.p[i].y /\ fin.p[i].y < 12)

\* newdata, newseeds and replaydetidx hold the retained photons in their order,
\* and the pixel coordinates of each are inside the pattern
SamePhotons ==
    /\ fout.newdata = [k \in 1..Len(Retained) |-> <<"detp", Retained[k]>>]
    /\ fout.newseeds = [k \in 1..Len(Retained) |-> <<"seed", Retained[k]>>]
    /\ Len(fout.replaydetidx) = Len(Retained)
    /\ \A k \in 1..Len(Retained) :
           /\ fout.newindex1[k] = (fin.p[Retained[k]].x * fin.patternsize[1]) \div 12
           /\ fout.newindex2[k] = (fin.p[Retained[k]].y * fin.patternsize[2]) \div 12
           /\ fout.newindex1[k] \in 0..(fin.patternsize[1] - 1)
           /\ fout.newindex2[k] \in 0..(fin.patternsize[2] - 1)

\* replaydetidx is a linear index of the pixel: inside 0..P1*P2-1, and
\* different for different pixels
UniqueIndex ==
    \A k \in 1..Len(fout.replaydetidx) :
        /\ fout.replaydetidx[k] \in 0..(fin.patternsize[1] * fin.patternsize[2] - 1)
        /\ \A l \in 1..Len(fout.replaydetidx) :
               <<fout.newindex1[k], fout.newindex2[k]>> # <<fout.newindex1[l], fout.newindex2[l]>>
                   => fout.replaydetidx[k] # fout.replaydetidx[l]

\* C30: for any patternsize [P1, P2], when mcxdetpidx returns every retained
\* photon has index1 in 0..P1-1 and index2 in 0..P2-1, replaydetidx is in
\* 0..P1*P2-1 and differs for different pixels, and newdata, newseeds and
\* replaydetidx hold the same photons in the same order
C30_PixelIndex ==
    pc = "detp_done" => SamePhotons /\ UniqueIndex

====
